---------------------------- MODULE Spec2Model ----------------------------
(***************************************************************************)
(* Model of the timetable scheduling engine: time arithmetic, the          *)
(* availability filter, the per-day count constraints, the conflict        *)
(* kernel (checkConflicts), the POST / PUT / DELETE handlers of the        *)
(* timetable router, the greedy generator and the graph-colouring          *)
(* generator (Welsh-Powell and DSATUR).                                    *)
(*                                                                         *)
(* A time "HH:MM" is the record [h |-> HH, m |-> MM] of the two numbers    *)
(* the code prints with padStart(2, '0'); TimeString gives the characters  *)
(* of the printed string where the code compares strings, and DateValid /  *)
(* DateValue give what new Date(`1970-01-01T${t}:00`) makes of it.  A      *)
(* field may be NaN (the code's arithmetic on an absent duration).         *)
(***************************************************************************)
EXTENDS Integers, Sequences, FiniteSets, TLC

VARIABLES
    args,               \* arguments of the pure-function call under check
    result,             \* its result (Undefined before the call)
    pc,                 \* position of the call or of the generator
    timetable,          \* the persisted Timetable collection
    response            \* the last HTTP response of the router

vars == <<args, result, pc, timetable, response>>

\* JavaScript's undefined / null, and the value of a variable not yet set
Undefined == [undefined |-> TRUE]

(***************************************************************************)
(* Time arithmetic                                                         *)
(***************************************************************************)

\* the value JavaScript prints as "NaN"
NaN == -1

Time(h, m) == [h |-> h, m |-> m]

\* n.toString().padStart(2, '0') as character codes ('0' = 48, 'N' = 78, 'a' = 97)
PadStart2(n) ==
    IF n = NaN THEN <<78, 97, 78>>
    ELSE IF n < 10 THEN <<48, 48 + n>>
    ELSE IF n < 100 THEN <<48 + (n \div 10), 48 + (n % 10)>>
    ELSE <<48 + (n \div 100), 48 + ((n \div 10) % 10), 48 + (n % 10)>>

\* `${h}:${m}` as character codes (':' = 58)
TimeString(t) == PadStart2(t.h) \o <<58>> \o PadStart2(t.m)

\* JavaScript's a <= b on strings: code units compared left to right
RECURSIVE StrLeq(_, _)
StrLeq(a, b) ==
    IF a = <<>> THEN TRUE
    ELSE IF b = <<>> THEN FALSE
    ELSE IF Head(a) < Head(b) THEN TRUE
    ELSE IF Head(a) > Head(b) THEN FALSE
    ELSE StrLeq(Tail(a), Tail(b))

\* new Date(`1970-01-01T${t}:00`) is a valid date only for HH in 00..23 with
\* MM in 00..59 (or 24:00); anything else is Invalid Date
DateValid(t) ==
    /\ t.h # NaN
    /\ t.m # NaN
    /\ \/ (t.h <= 23 /\ t.m <= 59)
       \/ (t.h = 24 /\ t.m = 0)

\* the valid date's value, in minutes
DateValue(t) == t.h * 60 + t.m

\* date1 < date2: false as soon as one side is Invalid Date (NaN)
DateLess(a, b) == DateValid(a) /\ DateValid(b) /\ DateValue(a) < DateValue(b)

\* a variant that takes touching intervals to conflict
isTimeConflictInclusive(startTime1, endTime1, startTime2, endTime2) ==
    /\ DateValid(startTime1) /\ DateValid(endTime1)
    /\ DateValid(startTime2) /\ DateValid(endTime2)
    /\ DateValue(startTime1) <= DateValue(endTime2)
    /\ DateValue(startTime2) <= DateValue(endTime1)

isTimeConflict(startTime1, endTime1, startTime2, endTime2) ==
    DateLess(startTime1, endTime2) /\ DateLess(startTime2, endTime1)

isTimeOverlap(start1, end1, start2, end2) ==
    DateLess(start1, end2) /\ DateLess(start2, end1)

toMinutes(time) == time.h * 60 + time.m

toTimeString(totalMinutes) == Time(totalMinutes \div 60, totalMinutes % 60)

\* the slots t = start, start+step, ... with t + duration <= end
RECURSIVE SlotsFrom(_, _, _, _)
SlotsFrom(t, endMin, step, duration) ==
    IF t + duration <= endMin
    THEN <<toTimeString(t)>> \o SlotsFrom(t + step, endMin, step, duration)
    ELSE <<>>

\* a variant whose last slot must end strictly before `end`
generateTimeSlotsExclusive(start, end, step, duration) ==
    SlotsFrom(toMinutes(start), toMinutes(end) - 1, step, duration)

generateTimeSlots(start, end, step, duration) ==
    SlotsFrom(toMinutes(start), toMinutes(end), step, duration)

\* an absent duration (undefined in the request body)
Absent == 0

\* the end-time arithmetic every routine repeats: hours and minutes are added
\* separately and printed; undefined / 60 and undefined % 60 are NaN
calculateEndTime(startTime, duration) ==
    IF duration = Absent THEN Time(NaN, NaN)
    ELSE Time(startTime.h + (duration \div 60), startTime.m + (duration % 60))

\* the same arithmetic written inline in the POST and PUT handlers and in the
\* greedy generator
InlineEndTime(startTime, duration) ==
    IF duration = Absent THEN Time(NaN, NaN)
    ELSE Time(startTime.h + (duration \div 60), startTime.m + (duration % 60))

\* end_of(start, duration): the HH:MM of minutes(start) + duration
EndOf(startTime, duration) ==
    Time((toMinutes(startTime) + duration) \div 60,
         (toMinutes(startTime) + duration) % 60)

(***************************************************************************)
(* Entities, references and timetable entries                              *)
(***************************************************************************)

\* A reference held by a timetable entry: the raw identifier (populated =
\* FALSE), or the referenced document Timetable.find(...).populate(...) put in
\* its place (populated = TRUE), which carries _id and name.
RawRef(id) == [_id |-> id, name |-> "", populated |-> FALSE]
PopulatedRef(id) == [_id |-> id, name |-> " " \o id, populated |-> TRUE]

\* slot.x?._id ? slot.x._id.toString() : slot.x?.toString()
RefId(ref) == ref._id

\* ref.toString(): the identifier for a raw id; for a populated document the
\* rendering of the whole document, which equals no identifier
RefToString(ref) == IF ref.populated THEN "{ _id: " \o ref._id \o ", name }" ELSE ref._id

\* a pending (in-memory) entry as checkConflicts sees it: raw identifiers
RawSlot(e) ==
    [courseId |-> RawRef(e.courseId), studentGroupId |-> RawRef(e.studentGroupId),
     classroomId |-> RawRef(e.classroomId), teacherId |-> RawRef(e.teacherId),
     day |-> e.day, startTime |-> e.startTime, endTime |-> e.endTime]

\* a persisted entry as the populated query returns it
PopulatedSlot(e) ==
    [courseId |-> PopulatedRef(e.courseId), studentGroupId |-> PopulatedRef(e.studentGroupId),
     classroomId |-> PopulatedRef(e.classroomId), teacherId |-> PopulatedRef(e.teacherId),
     day |-> e.day, startTime |-> e.startTime, endTime |-> e.endTime]

\* no excludeTimetableId (null); persisted _id values start at 1
NoId == 0

\* array.find(r => r.day === day): the first record of that day, or undefined
FindDay(records, day) ==
    LET idx == {i \in 1 .. Len(records) : records[i].day = day}
    IN  IF idx = {} THEN Undefined
        ELSE records[CHOOSE i \in idx : \A j \in idx : i <= j]

(***************************************************************************)
(* Availability filter                                                     *)
(***************************************************************************)

\* a variant that takes a day without an availability record as unconstrained
isWithinAvailabilityLenient(entity, day, startTime, endTime) ==
    IF entity = Undefined THEN TRUE
    ELSE
        LET blackout == FindDay(entity.blackoutPeriods, day)
            availability == FindDay(entity.availability, day)
        IN  IF /\ blackout # Undefined
               /\ \E i \in 1 .. Len(blackout.slots) :
                      isTimeConflict(startTime, endTime,
                                     blackout.slots[i].start, blackout.slots[i].end)
            THEN FALSE
            ELSE IF availability # Undefined
            THEN \E i \in 1 .. Len(availability.slots) :
                        /\ StrLeq(TimeString(availability.slots[i].start), TimeString(startTime))
                        /\ StrLeq(TimeString(endTime), TimeString(availability.slots[i].end))
            ELSE TRUE

isWithinAvailability(entity, day, startTime, endTime) ==
    IF entity = Undefined THEN TRUE
    ELSE
        LET blackout == FindDay(entity.blackoutPeriods, day)
            availability == FindDay(entity.availability, day)
        IN  IF /\ Len(entity.blackoutPeriods) > 0
               /\ blackout # Undefined
               /\ \E i \in 1 .. Len(blackout.slots) :
                      isTimeConflict(startTime, endTime,
                                     blackout.slots[i].start, blackout.slots[i].end)
            THEN FALSE
            ELSE IF Len(entity.availability) > 0
            THEN /\ availability # Undefined
                 /\ \E i \in 1 .. Len(availability.slots) :
                        /\ StrLeq(TimeString(availability.slots[i].start), TimeString(startTime))
                        /\ StrLeq(TimeString(endTime), TimeString(availability.slots[i].end))
            ELSE TRUE

isClassroomAvailable(classroom, day, startTime, endTime) ==
    LET blackout == FindDay(classroom.blackoutPeriods, day)
        availability == FindDay(classroom.availability, day)
    IN  IF /\ blackout # Undefined
           /\ \E i \in 1 .. Len(blackout.slots) :
                  isTimeOverlap(startTime, endTime,
                                blackout.slots[i].start, blackout.slots[i].end)
        THEN FALSE
        ELSE IF Len(classroom.availability) > 0
        THEN /\ availability # Undefined
             /\ \E i \in 1 .. Len(availability.slots) :
                    /\ StrLeq(TimeString(availability.slots[i].start), TimeString(startTime))
                    /\ StrLeq(TimeString(endTime), TimeString(availability.slots[i].end))
        ELSE TRUE

(***************************************************************************)
(* Count constraints                                                       *)
(***************************************************************************)

maxTeacherDailyLectures == 4
maxGroupDailyLectures == 5
maxClassroomDailyLectures == 6

\* a conflict message `${subject}${name}${text}`
Message(subject, name, text) == [subject |-> subject, name |-> name, text |-> text]

ExceedsText == " exceeds maximum daily lectures"

checkCountConstraints(allSlots, teacherId, studentGroupId, classroomId) ==
    LET teacherCount ==
            Cardinality({i \in DOMAIN allSlots : RefToString(allSlots[i].teacherId) = teacherId})
        groupCount ==
            Cardinality({i \in DOMAIN allSlots : RefToString(allSlots[i].studentGroupId) = studentGroupId})
        classroomCount ==
            Cardinality({i \in DOMAIN allSlots : RefToString(allSlots[i].classroomId) = classroomId})
    IN  (IF teacherCount > maxTeacherDailyLectures
         THEN <<Message("Teacher", "", ExceedsText)>> ELSE <<>>)
        \o (IF groupCount > maxGroupDailyLectures
            THEN <<Message("Student group", "", ExceedsText)>> ELSE <<>>)
        \o (IF classroomCount > maxClassroomDailyLectures
            THEN <<Message("Classroom", "", ExceedsText)>> ELSE <<>>)

(***************************************************************************)
(* Conflict kernel                                                         *)
(***************************************************************************)

\* Timetable.find({day, $or: [...], _id: {$ne: exclude}}).populate(...)
\* a variant of the query that leaves out the _id: { $ne: ... } condition
FindExistingAll(persisted, courseId, studentGroupId, classroomId, teacherId, day, excludeTimetableId) ==
    LET found ==
            SelectSeq(persisted,
                      LAMBDA e : /\ e.day = day
                                 /\ \/ e.courseId = courseId
                                    \/ e.studentGroupId = studentGroupId
                                    \/ e.classroomId = classroomId
                                    \/ e.teacherId = teacherId)
    IN  [i \in 1 .. Len(found) |-> PopulatedSlot(found[i])]

FindExisting(persisted, courseId, studentGroupId, classroomId, teacherId, day, excludeTimetableId) ==
    LET found ==
            SelectSeq(persisted,
                      LAMBDA e : /\ e.day = day
                                 /\ \/ e.courseId = courseId
                                    \/ e.studentGroupId = studentGroupId
                                    \/ e.classroomId = classroomId
                                    \/ e.teacherId = teacherId
                                 /\ (excludeTimetableId # NoId => e._id # excludeTimetableId))
    IN  [i \in 1 .. Len(found) |-> PopulatedSlot(found[i])]

\* the messages one slot of allSlots contributes (lines 111-135)
OverlapMessages(slot, courseId, studentGroupId, classroomId, teacherId, day, startTime, endTime) ==
    IF slot.day = day /\ isTimeConflict(startTime, endTime, slot.startTime, slot.endTime)
    THEN (IF RefId(slot.courseId) = courseId
          THEN <<Message("Course", slot.courseId.name, " already scheduled at this time")>>
          ELSE <<>>)
         \o (IF RefId(slot.studentGroupId) = studentGroupId
             THEN <<Message("Student group", slot.studentGroupId.name, " already has a class at this time")>>
             ELSE <<>>)
         \o (IF RefId(slot.classroomId) = classroomId
             THEN <<Message("Classroom", slot.classroomId.name, " is already booked at this time")>>
             ELSE <<>>)
         \o (IF RefId(slot.teacherId) = teacherId
             THEN <<Message("Teacher", slot.teacherId.name, " already has a class at this time")>>
             ELSE <<>>)
    ELSE <<>>

\* for (const slot of allSlots): the messages of all the slots, in order
RECURSIVE AllOverlapMessages(_, _, _, _, _, _, _, _)
AllOverlapMessages(allSlots, courseId, studentGroupId, classroomId, teacherId, day, startTime, endTime) ==
    IF allSlots = <<>> THEN <<>>
    ELSE OverlapMessages(Head(allSlots), courseId, studentGroupId, classroomId, teacherId,
                         day, startTime, endTime)
         \o AllOverlapMessages(Tail(allSlots), courseId, studentGroupId, classroomId,
                               teacherId, day, startTime, endTime)

NotAvailableText == " is not available at this time"

AvailabilityMessages(entities, day, startTime, endTime) ==
    (IF entities.teacher # Undefined /\ ~isWithinAvailability(entities.teacher, day, startTime, endTime)
     THEN <<Message("Teacher", entities.teacher.name, NotAvailableText)>> ELSE <<>>)
    \o (IF entities.classroom # Undefined /\ ~isWithinAvailability(entities.classroom, day, startTime, endTime)
        THEN <<Message("Classroom", entities.classroom.name, NotAvailableText)>> ELSE <<>>)
    \o (IF entities.studentGroup # Undefined /\ ~isWithinAvailability(entities.studentGroup, day, startTime, endTime)
        THEN <<Message("Student group", entities.studentGroup.name, NotAvailableText)>> ELSE <<>>)

\* checkConflicts against the persisted collection `persisted`
checkConflicts(persisted, courseId, studentGroupId, classroomId, teacherId, day, startTime, endTime, excludeTimetableId, pendingSchedule, entities) ==
    LET existingSlots == FindExisting(persisted, courseId, studentGroupId, classroomId,
                                      teacherId, day, excludeTimetableId)
        pending == SelectSeq(pendingSchedule, LAMBDA s : s.day = day)
        relevantPending == [i \in 1 .. Len(pending) |-> RawSlot(pending[i])]
        allSlots == existingSlots \o relevantPending
        allSlotsWithNew ==
            allSlots \o <<[courseId |-> RawRef(courseId), studentGroupId |-> RawRef(studentGroupId),
                           classroomId |-> RawRef(classroomId), teacherId |-> RawRef(teacherId)]>>
    IN  checkCountConstraints(allSlotsWithNew, teacherId, studentGroupId, classroomId)
        \o AllOverlapMessages(allSlots, courseId, studentGroupId, classroomId, teacherId,
                              day, startTime, endTime)
        \o AvailabilityMessages(entities, day, startTime, endTime)

NoEntities == [teacher |-> Undefined, classroom |-> Undefined, studentGroup |-> Undefined]

(***************************************************************************)
(* The persisted collection                                                *)
(***************************************************************************)

Days == <<"monday", "tuesday", "wednesday", "thursday", "friday", "saturday">>

Entry(courseId, studentGroupId, classroomId, teacherId, day, startTime, endTime, duration) ==
    [courseId |-> courseId, studentGroupId |-> studentGroupId, classroomId |-> classroomId,
     teacherId |-> teacherId, day |-> day, startTime |-> startTime, endTime |-> endTime,
     duration |-> duration]

\* the document the collection stores for an entry: the entry with a fresh _id
Document(e, id) ==
    [_id |-> id, courseId |-> e.courseId, studentGroupId |-> e.studentGroupId,
     classroomId |-> e.classroomId, teacherId |-> e.teacherId, day |-> e.day,
     startTime |-> e.startTime, endTime |-> e.endTime, duration |-> e.duration]

\* a fresh _id: one more than the largest stored
NextId(persisted) ==
    IF persisted = <<>> THEN 1
    ELSE 1 + (CHOOSE n \in {persisted[i]._id : i \in 1 .. Len(persisted)} :
                 \A i \in 1 .. Len(persisted) : persisted[i]._id <= n)

\* Timetable.insertMany(schedule): the entries are stored as given
insertMany(persisted, schedule) ==
    persisted \o [i \in 1 .. Len(schedule) |-> Document(schedule[i], NextId(persisted) + i - 1)]

\* POST /timetable/generate/save
SaveGenerated(schedule) ==
    /\ timetable' = insertMany(timetable, schedule)
    /\ response' = [status |-> 201, entriesSaved |-> Len(schedule)]

(***************************************************************************)
(* POST /timetable, PUT /timetable/:id, DELETE /timetable/:id              *)
(***************************************************************************)

\* the stored entity documents: Course.findById, StudentGroup.findById,
\* Classroom.findById and userModel.findById find every identifier used here,
\* every teacher is faculty, and no entity declares availability or blackouts
FindEntity(id) == [_id |-> id, name |-> " " \o id, availability |-> <<>>, blackoutPeriods |-> <<>>]

\* the duration the Timetable schema stores when the body gives none
DefaultDuration == 60

\* z.number().min(30).max(180).default(60)
ValidDuration(duration) == duration = Absent \/ (30 <= duration /\ duration <= 180)

\* a variant that creates the entry before it looks at the conflicts
PostTimetableCreateFirst(body) ==
    IF ~ValidDuration(body.duration)
    THEN /\ response' = [status |-> 400, conflicts |-> <<>>]
         /\ UNCHANGED timetable
    ELSE
        LET endTime == InlineEndTime(body.startTime, body.duration)
            conflicts ==
                checkConflicts(timetable, body.courseId, body.studentGroupId, body.classroomId,
                               body.teacherId, body.day, body.startTime, endTime, NoId, <<>>,
                               [teacher |-> FindEntity(body.teacherId),
                                classroom |-> FindEntity(body.classroomId),
                                studentGroup |-> FindEntity(body.studentGroupId)])
        IN  /\ timetable' =
                   Append(timetable,
                          Document(Entry(body.courseId, body.studentGroupId, body.classroomId,
                                         body.teacherId, body.day, body.startTime, endTime,
                                         IF body.duration = Absent THEN DefaultDuration
                                         ELSE body.duration),
                                   NextId(timetable)))
            /\ response' = IF Len(conflicts) > 0
                           THEN [status |-> 409, conflicts |-> conflicts]
                           ELSE [status |-> 201, conflicts |-> <<>>]

\* POST /timetable with request body `body`
PostTimetable(body) ==
    IF ~ValidDuration(body.duration)
    THEN /\ response' = [status |-> 400, conflicts |-> <<>>]
         /\ UNCHANGED timetable
    ELSE
        LET endTime == InlineEndTime(body.startTime, body.duration)
            conflicts ==
                checkConflicts(timetable, body.courseId, body.studentGroupId, body.classroomId,
                               body.teacherId, body.day, body.startTime, endTime, NoId, <<>>,
                               [teacher |-> FindEntity(body.teacherId),
                                classroom |-> FindEntity(body.classroomId),
                                studentGroup |-> FindEntity(body.studentGroupId)])
        IN  IF Len(conflicts) > 0
            THEN /\ response' = [status |-> 409, conflicts |-> conflicts]
                 /\ UNCHANGED timetable
            ELSE /\ timetable' =
                        Append(timetable,
                               Document(Entry(body.courseId, body.studentGroupId, body.classroomId,
                                              body.teacherId, body.day, body.startTime, endTime,
                                              IF body.duration = Absent THEN DefaultDuration
                                              ELSE body.duration),
                                        NextId(timetable)))
                 /\ response' = [status |-> 201, conflicts |-> <<>>]

\* a key the PUT body does not give: "" for day and classroomId, Undefined for
\* startTime, Absent for duration
NoString == ""

\* Timetable.findById(id): the position of the entry in the collection, 0 if none
FindById(persisted, id) ==
    IF \E i \in 1 .. Len(persisted) : persisted[i]._id = id
    THEN CHOOSE i \in 1 .. Len(persisted) : persisted[i]._id = id
    ELSE 0

\* PUT /timetable/:id with the whitelisted keys of the body in `updates`
PutTimetable(id, updates) ==
    LET both == updates.startTime # Undefined /\ updates.duration # Absent
        newEndTime == InlineEndTime(updates.startTime, updates.duration)
        pos == FindById(timetable, id)
        existingEntry == timetable[pos]
        classroomId == IF updates.classroomId # NoString THEN updates.classroomId
                       ELSE existingEntry.classroomId
        conflicts ==
            checkConflicts(timetable, existingEntry.courseId, existingEntry.studentGroupId,
                           classroomId, existingEntry.teacherId,
                           IF updates.day # NoString THEN updates.day ELSE existingEntry.day,
                           IF updates.startTime # Undefined THEN updates.startTime
                           ELSE existingEntry.startTime,
                           IF both THEN newEndTime ELSE existingEntry.endTime,
                           id, <<>>,
                           [teacher |-> FindEntity(existingEntry.teacherId),
                            classroom |-> FindEntity(classroomId),
                            studentGroup |-> FindEntity(existingEntry.studentGroupId)])
        checked == updates.day # NoString \/ updates.startTime # Undefined
                       \/ updates.classroomId # NoString
    IN  IF pos = 0
        THEN /\ response' = [status |-> 404, conflicts |-> <<>>]
             /\ UNCHANGED timetable
        ELSE IF checked /\ Len(conflicts) > 0
        THEN /\ response' = [status |-> 409, conflicts |-> conflicts]
             /\ UNCHANGED timetable
        ELSE /\ timetable' =
                    [timetable EXCEPT ![pos] =
                        [existingEntry EXCEPT
                            !.day = IF updates.day # NoString THEN updates.day ELSE @,
                            !.startTime = IF updates.startTime # Undefined
                                          THEN updates.startTime ELSE @,
                            !.duration = IF updates.duration # Absent THEN updates.duration ELSE @,
                            !.classroomId = IF updates.classroomId # NoString
                                            THEN updates.classroomId ELSE @,
                            !.endTime = IF both THEN newEndTime ELSE @]]
             /\ response' = [status |-> 200, conflicts |-> <<>>]

\* DELETE /timetable/:id
DeleteTimetable(id) ==
    LET pos == FindById(timetable, id)
    IN  IF pos = 0
        THEN /\ response' = [status |-> 404, conflicts |-> <<>>]
             /\ UNCHANGED timetable
        ELSE /\ timetable' = SelectSeq(timetable, LAMBDA e : e._id # id)
             /\ response' = [status |-> 200, conflicts |-> <<>>]

(***************************************************************************)
(* Specification SpecCrud: sequential POST / PUT / DELETE requests from    *)
(* the empty collection                                                    *)
(***************************************************************************)

MaxEntries == 2
MaxRequests == 3

\* (course, group, classroom, teacher) of the request bodies
CrudAssignments ==
    {<<"c1", "g1", "r1", "t1">>, <<"c2", "g2", "r2", "t1">>, <<"c2", "g2", "r1", "t2">>}

CrudDays == {"monday", "tuesday"}
CrudStarts == {Time(9, 0), Time(9, 30)}
CrudDurations == {30, 60}

PostBodies ==
    {[courseId |-> a[1], studentGroupId |-> a[2], classroomId |-> a[3], teacherId |-> a[4],
      day |-> d, startTime |-> st, duration |-> du] :
        a \in CrudAssignments, d \in CrudDays, st \in CrudStarts,
        du \in CrudDurations \cup {Absent, 200}}

PutBodies ==
    [day : {NoString, "tuesday"}, startTime : {Undefined} \cup CrudStarts,
     duration : {Absent} \cup CrudDurations, classroomId : {NoString, "r2"}]

InitCrud ==
    /\ args = 0
    /\ result = Undefined
    /\ pc = "serve"
    /\ timetable = <<>>
    /\ response = Undefined

\* args counts the requests served
CrudPost ==
    /\ args < MaxRequests
    /\ Len(timetable) < MaxEntries
    /\ \E body \in PostBodies : PostTimetable(body)
    /\ args' = args + 1
    /\ UNCHANGED <<result, pc>>

CrudPut ==
    /\ args < MaxRequests
    /\ \E id \in 1 .. MaxRequests, updates \in PutBodies : PutTimetable(id, updates)
    /\ args' = args + 1
    /\ UNCHANGED <<result, pc>>

CrudDelete ==
    /\ args < MaxRequests
    /\ \E id \in 1 .. MaxRequests : DeleteTimetable(id)
    /\ args' = args + 1
    /\ UNCHANGED <<result, pc>>

NextCrud == CrudPost \/ CrudPut \/ CrudDelete

SpecCrud == InitCrud /\ [][NextCrud]_vars

\* the list checkConflicts returns for a valid POST body
PostConflicts(persisted, body) ==
    checkConflicts(persisted, body.courseId, body.studentGroupId, body.classroomId,
                   body.teacherId, body.day, body.startTime,
                   InlineEndTime(body.startTime, body.duration), NoId, <<>>,
                   [teacher |-> FindEntity(body.teacherId),
                    classroom |-> FindEntity(body.classroomId),
                    studentGroup |-> FindEntity(body.studentGroupId)])

\* if (updates.day || updates.startTime || updates.classroomId)
PutChecked(updates) ==
    updates.day # NoString \/ updates.startTime # Undefined \/ updates.classroomId # NoString

\* the candidate PUT hands to checkConflicts, evaluated against the collection
\* `persisted` with `excludeTimetableId` left out of the query
PutConflicts(persisted, existingEntry, updates, excludeTimetableId) ==
    checkConflicts(persisted, existingEntry.courseId, existingEntry.studentGroupId,
                   IF updates.classroomId # NoString THEN updates.classroomId
                   ELSE existingEntry.classroomId,
                   existingEntry.teacherId,
                   IF updates.day # NoString THEN updates.day ELSE existingEntry.day,
                   IF updates.startTime # Undefined THEN updates.startTime
                   ELSE existingEntry.startTime,
                   IF updates.startTime # Undefined /\ updates.duration # Absent
                   THEN InlineEndTime(updates.startTime, updates.duration)
                   ELSE existingEntry.endTime,
                   excludeTimetableId, <<>>,
                   [teacher |-> FindEntity(existingEntry.teacherId),
                    classroom |-> FindEntity(IF updates.classroomId # NoString
                                             THEN updates.classroomId
                                             ELSE existingEntry.classroomId),
                    studentGroup |-> FindEntity(existingEntry.studentGroupId)])

\* the last entry of the collection is the one Timetable.create stores for `body`
CreatedFrom(persisted, body) ==
    /\ persisted # <<>>
    /\ persisted[Len(persisted)].courseId = body.courseId
    /\ persisted[Len(persisted)].studentGroupId = body.studentGroupId
    /\ persisted[Len(persisted)].classroomId = body.classroomId
    /\ persisted[Len(persisted)].teacherId = body.teacherId
    /\ persisted[Len(persisted)].day = body.day
    /\ persisted[Len(persisted)].startTime = body.startTime

\* the entry carries every key `updates` gives
UpdatedWith(entry, updates) ==
    /\ updates.day # NoString => entry.day = updates.day
    /\ updates.startTime # Undefined => entry.startTime = updates.startTime
    /\ updates.duration # Absent => entry.duration = updates.duration
    /\ updates.classroomId # NoString => entry.classroomId = updates.classroomId

C6_EndTimeDerived ==
    \A i \in 1 .. Len(timetable) :
        TimeString(timetable[i].endTime)
            = TimeString(EndOf(timetable[i].startTime, timetable[i].duration))

\* a POST on the hour with a duration given stores the derived end time
C6_Witness ==
    /\ Len(timetable) = 1
    /\ response.status = 201
    /\ timetable[1].startTime = Time(9, 0)
    /\ timetable[1].duration = 60
    /\ timetable[1].endTime = Time(10, 0)

\* the teaching intervals [startTime, startTime + duration) of two entries overlap
TeachingOverlap(e1, e2) ==
    /\ toMinutes(e1.startTime) < toMinutes(e2.startTime) + e2.duration
    /\ toMinutes(e2.startTime) < toMinutes(e1.startTime) + e1.duration

SharesIdentifier(e1, e2) ==
    \/ e1.courseId = e2.courseId
    \/ e1.studentGroupId = e2.studentGroupId
    \/ e1.teacherId = e2.teacherId
    \/ e1.classroomId = e2.classroomId

\* no two entries of `schedule` on the same day with overlapping teaching
\* intervals share a course, a student group, a teacher or a classroom
ConflictFree(schedule) ==
    \A i, j \in 1 .. Len(schedule) :
        (i < j /\ schedule[i].day = schedule[j].day /\ TeachingOverlap(schedule[i], schedule[j]))
            => ~SharesIdentifier(schedule[i], schedule[j])

\* C7: from the empty store, after any sequential series of POST, PUT and
\* DELETE requests, no two persisted entries on the same day whose teaching
\* intervals overlap share a course, a student group, a teacher or a classroom.
C7_PersistedConflictFree == ConflictFree(timetable)

\* a second POST that overlaps the first and shares its teacher was refused
C7_Witness ==
    /\ Len(timetable) = 1
    /\ timetable[1].endTime = Time(10, 0)
    /\ response.status = 409
    /\ \E i \in 1 .. Len(response.conflicts) : response.conflicts[i].subject = "Teacher"

(***************************************************************************)
(* Greedy generator: GET /timetable/generate                               *)
(***************************************************************************)

\* a variant that takes every classroom with seats to be large enough
HasCapacityAny(classroom, size) == classroom.capacity > 0

\* classroom.capacity >= studentGroup.size (>= node.requiredCapacity)
HasCapacity(classroom, size) == classroom.capacity >= size

\* the iterations of `for studentGroup ... for i < course.frequency` of one course
CourseSessions(course) ==
    [k \in 1 .. Len(course.studentGroups) * course.frequency |->
        [course |-> course,
         studentGroup |-> course.studentGroups[((k - 1) \div course.frequency) + 1]]]

\* the iterations of the three outer loops, in loop order
RECURSIVE GreedySessions(_)
GreedySessions(courses) ==
    IF courses = <<>> THEN <<>>
    ELSE CourseSessions(Head(courses)) \o GreedySessions(Tail(courses))

\* a variant that takes the first large-enough classroom of the first slot
\* without asking checkConflicts
GreedyPlaceUnchecked(course, studentGroup, classrooms, generatedSchedule, persisted, slotConfig) ==
    LET possibleSlots ==
            generateTimeSlots(slotConfig.start, slotConfig.end, slotConfig.step, course.duration)
        fits == {k \in 1 .. Len(classrooms) : HasCapacity(classrooms[k], studentGroup.size)}
    IN  IF fits = {} \/ possibleSlots = <<>> THEN Undefined
        ELSE Entry(course._id, studentGroup._id, classrooms[CHOOSE x \in fits : \A y \in fits : x <= y]._id,
                   course.teacherId._id, Days[1], possibleSlots[1],
                   InlineEndTime(possibleSlots[1], course.duration), course.duration)

\* one session: the first (day, startTime, classroom), in loop order, whose
\* classroom is large enough and for which checkConflicts returns no message;
\* the schedule entry pushed, or Undefined when the session is not scheduled
\* a variant that keeps scanning and takes the last triple that fits
GreedyPlaceLastFit(course, studentGroup, classrooms, generatedSchedule, persisted, slotConfig) ==
    LET possibleSlots ==
            generateTimeSlots(slotConfig.start, slotConfig.end, slotConfig.step, course.duration)
        nSlots == Len(possibleSlots)
        nRooms == Len(classrooms)
        day(k) == Days[((k - 1) \div (nSlots * nRooms)) + 1]
        startTime(k) == possibleSlots[(((k - 1) \div nRooms) % nSlots) + 1]
        classroom(k) == classrooms[((k - 1) % nRooms) + 1]
        endTime(k) == InlineEndTime(startTime(k), course.duration)
        fits ==
            {k \in 1 .. Len(Days) * nSlots * nRooms :
                /\ HasCapacity(classroom(k), studentGroup.size)
                /\ Len(checkConflicts(persisted, course._id, studentGroup._id, classroom(k)._id,
                                      course.teacherId._id, day(k), startTime(k), endTime(k),
                                      NoId, generatedSchedule,
                                      [teacher |-> course.teacherId, classroom |-> classroom(k),
                                       studentGroup |-> studentGroup])) = 0}
    IN  IF fits = {} THEN Undefined
        ELSE LET k == CHOOSE x \in fits : \A y \in fits : x >= y
             IN  Entry(course._id, studentGroup._id, classroom(k)._id, course.teacherId._id,
                       day(k), startTime(k), endTime(k), course.duration)

GreedyPlace(course, studentGroup, classrooms, generatedSchedule, persisted, slotConfig) ==
    LET possibleSlots ==
            generateTimeSlots(slotConfig.start, slotConfig.end, slotConfig.step, course.duration)
        nSlots == Len(possibleSlots)
        nRooms == Len(classrooms)
        day(k) == Days[((k - 1) \div (nSlots * nRooms)) + 1]
        startTime(k) == possibleSlots[(((k - 1) \div nRooms) % nSlots) + 1]
        classroom(k) == classrooms[((k - 1) % nRooms) + 1]
        endTime(k) == InlineEndTime(startTime(k), course.duration)
        fits ==
            {k \in 1 .. Len(Days) * nSlots * nRooms :
                /\ HasCapacity(classroom(k), studentGroup.size)
                /\ Len(checkConflicts(persisted, course._id, studentGroup._id, classroom(k)._id,
                                      course.teacherId._id, day(k), startTime(k), endTime(k),
                                      NoId, generatedSchedule,
                                      [teacher |-> course.teacherId, classroom |-> classroom(k),
                                       studentGroup |-> studentGroup])) = 0}
    IN  IF fits = {} THEN Undefined
        ELSE LET k == CHOOSE x \in fits : \A y \in fits : x <= y
             IN  Entry(course._id, studentGroup._id, classroom(k)._id, course.teacherId._id,
                       day(k), startTime(k), endTime(k), course.duration)

(***************************************************************************)
(* Graph colouring: TimetableGraph                                         *)
(* Node, colour and edge indices are 1-based here; 0 stands for the -1 of  *)
(* the code (no node, not coloured).                                       *)
(***************************************************************************)

\* not coloured / no node (-1 in the code)
None == 0

\* the nodes initializeGraph pushes for one course
CourseNodes(course) ==
    LET frequency == IF course.frequency = 0 THEN 1 ELSE course.frequency
    IN  [k \in 1 .. Len(course.studentGroups) * frequency |->
            LET studentGroup == course.studentGroups[((k - 1) \div frequency) + 1]
            IN  [courseId |-> course._id, studentGroupId |-> studentGroup._id,
                 teacherId |-> course.teacherId._id,
                 duration |-> IF course.duration = 0 THEN 60 ELSE course.duration,
                 requiredCapacity |-> studentGroup.size,
                 frequency |-> (k - 1) % frequency]]

RECURSIVE initializeGraph(_)
initializeGraph(courses) ==
    IF courses = <<>> THEN <<>>
    ELSE CourseNodes(Head(courses)) \o initializeGraph(Tail(courses))

hasConflict(node1, node2) ==
    \/ node1.teacherId = node2.teacherId
    \/ node1.studentGroupId = node2.studentGroupId
    \/ node1.courseId = node2.courseId

buildConflictGraph(nodes) ==
    {e \in (1 .. Len(nodes)) \X (1 .. Len(nodes)) :
        e[1] < e[2] /\ hasConflict(nodes[e[1]], nodes[e[2]])}

\* new TimetableGraph(courses, classrooms, studentGroups, teachers)
TimetableGraph(courses, classrooms) ==
    [nodes |-> initializeGraph(courses),
     edges |-> buildConflictGraph(initializeGraph(courses)),
     classrooms |-> classrooms]

\* the coloured or uncoloured neighbours of a node
Neighbours(graph, nodeIndex) ==
    {e[2] : e \in {x \in graph.edges : x[1] = nodeIndex}}
        \cup {e[1] : e \in {x \in graph.edges : x[2] = nodeIndex}}

getNodeDegree(graph, nodeIndex) ==
    Cardinality({e \in graph.edges : e[1] = nodeIndex \/ e[2] = nodeIndex})

\* the colours: one per (day, time slot), each with a 60-minute end time
GraphColors(availableTimeSlots) ==
    [k \in 1 .. Len(Days) * Len(availableTimeSlots) |->
        LET timeSlot == availableTimeSlots[((k - 1) % Len(availableTimeSlots)) + 1]
        IN  [id |-> k, day |-> Days[((k - 1) \div Len(availableTimeSlots)) + 1],
             startTime |-> timeSlot, endTime |-> calculateEndTime(timeSlot, 60)]]

\* a variant that looks only at the edges leaving the node (edge.from)
getAvailableColorsFromOnly(graph, nodeIndex, coloring, colors) ==
    LET usedColors ==
            {coloring[e[2]] : e \in {x \in graph.edges : x[1] = nodeIndex /\ coloring[x[2]] # None}}
        node == graph.nodes[nodeIndex]
    IN  SelectSeq(colors,
                  LAMBDA color :
                      /\ color.id \notin usedColors
                      /\ \E i \in 1 .. Len(graph.classrooms) :
                            /\ HasCapacity(graph.classrooms[i], node.requiredCapacity)
                            /\ isClassroomAvailable(graph.classrooms[i], color.day,
                                                    color.startTime, color.endTime))

getAvailableColors(graph, nodeIndex, coloring, colors) ==
    LET usedColors == {coloring[n] : n \in {x \in Neighbours(graph, nodeIndex) : coloring[x] # None}}
        node == graph.nodes[nodeIndex]
    IN  SelectSeq(colors,
                  LAMBDA color :
                      /\ color.id \notin usedColors
                      /\ \E i \in 1 .. Len(graph.classrooms) :
                            /\ HasCapacity(graph.classrooms[i], node.requiredCapacity)
                            /\ isClassroomAvailable(graph.classrooms[i], color.day,
                                                    color.startTime, color.endTime))

\* timeSlotAssignments[nodeIndex] = {...}
Assignment(graph, nodeIndex, selectedColor) ==
    LET node == graph.nodes[nodeIndex]
    IN  [nodeId |-> nodeIndex, courseId |-> node.courseId, studentGroupId |-> node.studentGroupId,
         teacherId |-> node.teacherId, day |-> selectedColor.day,
         startTime |-> selectedColor.startTime,
         endTime |-> calculateEndTime(selectedColor.startTime, node.duration),
         duration |-> node.duration, classroomId |-> NoString, color |-> selectedColor.id]

\* Object.entries(timeSlotAssignments): the assigned node indices, the integer
\* keys in ascending order
RECURSIVE AssignedFrom(_, _)
AssignedFrom(timeSlotAssignments, nodeIndex) ==
    IF nodeIndex > Len(timeSlotAssignments) THEN <<>>
    ELSE (IF timeSlotAssignments[nodeIndex] = Undefined THEN <<>> ELSE <<nodeIndex>>)
         \o AssignedFrom(timeSlotAssignments, nodeIndex + 1)

\* a variant that never consults classroomUsage
SelectClassroomAnyUse(graph, nodeIndex, assignment, classroomUsage) ==
    LET node == graph.nodes[nodeIndex]
        suitableClassrooms ==
            SelectSeq(graph.classrooms,
                      LAMBDA classroom :
                          /\ HasCapacity(classroom, node.requiredCapacity)
                          /\ isClassroomAvailable(classroom, assignment.day,
                                                  assignment.startTime, assignment.endTime))
    IN  IF suitableClassrooms = <<>> THEN Undefined ELSE suitableClassrooms[1]

\* one iteration of the loop of assignClassrooms: the first suitable classroom
\* not yet used at (day, startTime), or Undefined
SelectClassroom(graph, nodeIndex, assignment, classroomUsage) ==
    LET node == graph.nodes[nodeIndex]
        suitableClassrooms ==
            SelectSeq(graph.classrooms,
                      LAMBDA classroom :
                          /\ HasCapacity(classroom, node.requiredCapacity)
                          /\ isClassroomAvailable(classroom, assignment.day,
                                                  assignment.startTime, assignment.endTime))
        free == {i \in 1 .. Len(suitableClassrooms) :
                    <<suitableClassrooms[i]._id, assignment.day, assignment.startTime>>
                        \notin classroomUsage}
    IN  IF free = {} THEN Undefined
        ELSE suitableClassrooms[CHOOSE i \in free : \A j \in free : i <= j]

\* what assignClassrooms returns for the schedule it has built
assignClassrooms(graph, schedule) ==
    [schedule |-> schedule,
     totalSlots |-> Len(schedule),
     unscheduled |-> Len(graph.nodes) - Len(schedule),
     metadata |-> [algorithm |-> "graph_coloring",
                   totalNodes |-> Len(graph.nodes),
                   totalEdges |-> Cardinality(graph.edges),
                   colorsUsed |-> Cardinality({schedule[i].color : i \in 1 .. Len(schedule)})]]

\* node i comes before node j after sort((a, b) => b.degree - a.degree): the
\* degree descending, the sort is stable
SortsBefore(graph, i, j) ==
    \/ getNodeDegree(graph, i) > getNodeDegree(graph, j)
    \/ getNodeDegree(graph, i) = getNodeDegree(graph, j) /\ i < j

\* nodesByDegree, as node indices
SortByDegree(graph) ==
    [p \in 1 .. Len(graph.nodes) |->
        CHOOSE i \in 1 .. Len(graph.nodes) :
            Cardinality({j \in 1 .. Len(graph.nodes) : SortsBefore(graph, j, i)}) = p - 1]

getMaxDegreeNode(graph) ==
    LET all == 1 .. Len(graph.nodes)
    IN  IF all = {} THEN None
        ELSE CHOOSE i \in all : \A j \in all :
                \/ getNodeDegree(graph, i) > getNodeDegree(graph, j)
                \/ getNodeDegree(graph, i) = getNodeDegree(graph, j) /\ i <= j

\* a variant that counts coloured neighbours, one more per call
updateSaturationCounting(graph, coloredNode, coloring, saturation) ==
    [i \in 1 .. Len(graph.nodes) |->
        IF i \in Neighbours(graph, coloredNode) /\ coloring[i] = None
        THEN saturation[i] + 1
        ELSE saturation[i]]

updateSaturation(graph, coloredNode, coloring, saturation) ==
    [i \in 1 .. Len(graph.nodes) |->
        IF i \in Neighbours(graph, coloredNode) /\ coloring[i] = None
        THEN Cardinality({coloring[n] : n \in {x \in Neighbours(graph, i) : coloring[x] # None}})
        ELSE saturation[i]]

\* the first uncoloured node with the largest (saturation, degree)
getMaxSaturationNode(graph, colored, saturation) ==
    LET open == (1 .. Len(graph.nodes)) \ colored
    IN  IF open = {} THEN None
        ELSE CHOOSE i \in open : \A j \in open :
                \/ saturation[i] > saturation[j]
                \/ /\ saturation[i] = saturation[j]
                   /\ getNodeDegree(graph, i) > getNodeDegree(graph, j)
                \/ /\ saturation[i] = saturation[j]
                   /\ getNodeDegree(graph, i) = getNodeDegree(graph, j)
                   /\ i <= j

\* the graph-colouring route's answer: result.schedule formatted for the
\* database, with the counts of the scheduler's result
GraphResponse(generated) ==
    [schedule |-> [i \in 1 .. Len(generated.schedule) |->
                      LET item == generated.schedule[i]
                      IN  Entry(item.courseId, item.studentGroupId, item.classroomId,
                                item.teacherId, item.day, item.startTime, item.endTime,
                                item.duration)],
     metadata |-> generated.metadata,
     totalSlots |-> generated.totalSlots,
     unscheduled |-> generated.unscheduled]

(***************************************************************************)
(* Specification SpecGen: one generation request, greedy or graph          *)
(* colouring, over bounded courses, classrooms and slot configurations     *)
(***************************************************************************)

MaxFrequency == 2

\* the availability of the teacher who declares one: tuesday mornings only
TuesdayMorning ==
    <<[day |-> "tuesday", slots |-> <<[start |-> Time(9, 0), end |-> Time(12, 0)]>>]>>

\* teacher t3 declares an availability window, the others none
GenTeacher(id) ==
    [_id |-> id, name |-> " " \o id,
     availability |-> IF id = "t3" THEN TuesdayMorning ELSE <<>>,
     blackoutPeriods |-> <<>>]

GenGroup(id, size) ==
    [_id |-> id, name |-> " " \o id, size |-> size, availability |-> <<>>, blackoutPeriods |-> <<>>]

GenClassroom(id, capacity) ==
    [_id |-> id, name |-> " " \o id, capacity |-> capacity, availability |-> <<>>,
     blackoutPeriods |-> <<>>]

GenCourse(id, teacherId, studentGroups, frequency, duration) ==
    [_id |-> id, teacherId |-> GenTeacher(teacherId), studentGroups |-> studentGroups,
     frequency |-> frequency, duration |-> duration]

LargeGroup == GenGroup("g1", 30)
SmallGroup == GenGroup("g2", 10)
SmallRoom == GenClassroom("r1", 20)
LargeRoom == GenClassroom("r2", 40)

GenDurations == {30, 60, 90, 120}

FirstCourses ==
    {GenCourse("c1", "t1", gs, f, d) :
        gs \in {<<LargeGroup>>, <<LargeGroup, SmallGroup>>}, f \in 1 .. MaxFrequency,
        d \in GenDurations}

SecondCourses ==
    {GenCourse("c2", t, gs, f, 60) :
        t \in {"t1", "t2", "t3"}, gs \in {<<SmallGroup>>, <<LargeGroup, SmallGroup>>},
        f \in 1 .. MaxFrequency}

GenCourseLists ==
    {<<c>> : c \in FirstCourses} \cup {<<c, d>> : c \in FirstCourses, d \in SecondCourses}

\* a large classroom that is open on monday from 09:00 to 10:00 only
MorningRoom ==
    [GenClassroom("r3", 40) EXCEPT
        !.availability =
            <<[day |-> "monday", slots |-> <<[start |-> Time(9, 0), end |-> Time(10, 0)]>>]>>]

GenClassroomLists == {<<SmallRoom, LargeRoom>>, <<SmallRoom>>, <<MorningRoom, SmallRoom>>}

\* SLOT_START, SLOT_END, SLOT_STEP
GenSlotConfigs ==
    {[start |-> Time(9, 0), end |-> Time(12, 0), step |-> 60],
     [start |-> Time(9, 0), end |-> Time(12, 0), step |-> 30],
     [start |-> Time(9, 0), end |-> Time(10, 0), step |-> 60]}

Algorithms == {"greedy", "welsh-powell", "dsatur"}

InitGen ==
    /\ args \in [algorithm : Algorithms, courses : GenCourseLists,
                 classrooms : GenClassroomLists, slots : GenSlotConfigs]
    /\ result = Undefined
    /\ pc = "request"
    /\ timetable = <<>>
    /\ response = Undefined

\* GET /generate up to the loops: the courses and classrooms are read
GreedyStart ==
    /\ pc = "request"
    /\ args.algorithm = "greedy"
    /\ pc' = "greedy"
    /\ result' = [sessions |-> GreedySessions(args.courses), generatedSchedule |-> <<>>]
    /\ UNCHANGED <<args, timetable, response>>

\* one iteration of `for (let i = 0; i < course.frequency; i++)`
GreedySession ==
    /\ pc = "greedy"
    /\ result.sessions # <<>>
    /\ \E scheduleEntry \in {GreedyPlace(Head(result.sessions).course,
                                         Head(result.sessions).studentGroup, args.classrooms,
                                         result.generatedSchedule, timetable, args.slots)} :
          result' = [sessions |-> Tail(result.sessions),
                     generatedSchedule |->
                         IF scheduleEntry = Undefined THEN result.generatedSchedule
                         ELSE Append(result.generatedSchedule, scheduleEntry)]
    /\ UNCHANGED <<args, pc, timetable, response>>

\* a variant that stores the generated schedule before it answers
GreedyRespondAndStore ==
    /\ pc = "greedy"
    /\ result.sessions = <<>>
    /\ pc' = "done"
    /\ response' = [schedule |-> result.generatedSchedule,
                    totalSlots |-> Len(result.generatedSchedule)]
    /\ timetable' = insertMany(timetable, result.generatedSchedule)
    /\ UNCHANGED <<args, result>>

\* res.json({schedule: generatedSchedule, totalSlots: generatedSchedule.length})
GreedyRespond ==
    /\ pc = "greedy"
    /\ result.sessions = <<>>
    /\ pc' = "done"
    /\ response' = [schedule |-> result.generatedSchedule,
                    totalSlots |-> Len(result.generatedSchedule)]
    /\ UNCHANGED <<args, result, timetable>>

\* GET /generate/graph-coloring up to the call of the colouring: the
\* scheduler and its TimetableGraph are constructed and the time slots generated
GraphStart ==
    /\ pc = "request"
    /\ args.algorithm \in {"welsh-powell", "dsatur"}
    /\ result' = [graph |-> TimetableGraph(args.courses, args.classrooms),
                  colors |-> GraphColors(generateTimeSlots(args.slots.start, args.slots.end,
                                                           args.slots.step, 60)),
                  coloring |-> [i \in 1 .. Len(initializeGraph(args.courses)) |-> None],
                  saturation |-> [i \in 1 .. Len(initializeGraph(args.courses)) |-> 0],
                  timeSlotAssignments |->
                      [i \in 1 .. Len(initializeGraph(args.courses)) |-> Undefined],
                  colored |-> {},
                  nodesByDegree |-> <<>>,
                  currentNode |-> None,
                  entries |-> <<>>,
                  classroomUsage |-> {},
                  schedule |-> <<>>]
    /\ pc' = "graph"
    /\ UNCHANGED <<args, timetable, response>>

\* welshPowellColoring up to its colouring loop: the nodes are sorted by degree
WelshPowellSort ==
    /\ pc = "graph"
    /\ args.algorithm = "welsh-powell"
    /\ pc' = "welsh-powell"
    /\ result' = [result EXCEPT !.nodesByDegree = SortByDegree(result.graph)]
    /\ UNCHANGED <<args, timetable, response>>

\* dsaturColoring up to its loop: let currentNode = this.getMaxDegreeNode()
DsaturFirst ==
    /\ pc = "graph"
    /\ args.algorithm # "welsh-powell"
    /\ pc' = "dsatur"
    /\ result' = [result EXCEPT !.currentNode = getMaxDegreeNode(result.graph)]
    /\ UNCHANGED <<args, timetable, response>>

\* one iteration of `for (const node of nodesByDegree)`
WelshPowellColor ==
    /\ pc = "welsh-powell"
    /\ result.nodesByDegree # <<>>
    /\ \E nodeIndex \in {Head(result.nodesByDegree)} :
       \E availableColors \in {getAvailableColors(result.graph, nodeIndex, result.coloring,
                                                  result.colors)} :
          IF Len(availableColors) > 0
          THEN result' =
                   [result EXCEPT
                       !.nodesByDegree = Tail(@),
                       !.coloring[nodeIndex] = availableColors[1].id,
                       !.timeSlotAssignments[nodeIndex] =
                           Assignment(result.graph, nodeIndex, availableColors[1])]
          ELSE result' = [result EXCEPT !.nodesByDegree = Tail(@)]
    /\ UNCHANGED <<args, pc, timetable, response>>

\* the colouring loop is over: assignClassrooms(timeSlotAssignments) is entered
WelshPowellAssign ==
    /\ pc = "welsh-powell"
    /\ result.nodesByDegree = <<>>
    /\ pc' = "assign"
    /\ result' = [result EXCEPT !.entries = AssignedFrom(result.timeSlotAssignments, 1)]
    /\ UNCHANGED <<args, timetable, response>>

\* the body of `while (colored.size < this.nodes.length)` up to the choice of
\* the next node: the current node is coloured if it has an available colour
DsaturColor ==
    /\ pc = "dsatur"
    /\ Cardinality(result.colored) < Len(result.graph.nodes)
    /\ pc' = "dsatur-next"
    /\ \E currentNode \in {result.currentNode} :
       \E availableColors \in
              {IF currentNode = None THEN <<>>
               ELSE getAvailableColors(result.graph, currentNode, result.coloring,
                                       result.colors)} :
          IF Len(availableColors) > 0
          THEN \E coloring \in {[result.coloring EXCEPT ![currentNode] = availableColors[1].id]} :
                  result' =
                      [result EXCEPT
                          !.coloring = coloring,
                          !.colored = @ \cup {currentNode},
                          !.timeSlotAssignments[currentNode] =
                              Assignment(result.graph, currentNode, availableColors[1]),
                          !.saturation = updateSaturation(result.graph, currentNode, coloring, @)]
          ELSE UNCHANGED result
    /\ UNCHANGED <<args, timetable, response>>

\* currentNode = this.getMaxSaturationNode(colored, saturation), and back to
\* the loop test
DsaturNext ==
    /\ pc = "dsatur-next"
    /\ pc' = "dsatur"
    /\ result' = [result EXCEPT
                     !.currentNode = getMaxSaturationNode(result.graph, result.colored,
                                                          result.saturation)]
    /\ UNCHANGED <<args, timetable, response>>

\* the loop is left: assignClassrooms(timeSlotAssignments) is entered
DsaturAssign ==
    /\ pc = "dsatur"
    /\ Cardinality(result.colored) >= Len(result.graph.nodes)
    /\ pc' = "assign"
    /\ result' = [result EXCEPT !.entries = AssignedFrom(result.timeSlotAssignments, 1)]
    /\ UNCHANGED <<args, timetable, response>>

\* one iteration of `for (const [nodeIndex, assignment] of Object.entries(...))`
AssignClassroom ==
    /\ pc = "assign"
    /\ result.entries # <<>>
    /\ \E nodeIndex \in {Head(result.entries)} :
       \E assignment \in {result.timeSlotAssignments[nodeIndex]} :
       \E selectedClassroom \in {SelectClassroom(result.graph, nodeIndex, assignment,
                                                 result.classroomUsage)} :
          IF selectedClassroom # Undefined
          THEN result' =
                   [result EXCEPT
                       !.entries = Tail(@),
                       !.classroomUsage =
                           @ \cup {<<selectedClassroom._id, assignment.day, assignment.startTime>>},
                       !.schedule =
                           Append(@, [assignment EXCEPT !.classroomId = selectedClassroom._id])]
          ELSE result' = [result EXCEPT !.entries = Tail(@)]
    /\ UNCHANGED <<args, pc, timetable, response>>

\* assignClassrooms returns, generateTimetable returns, the route answers
GraphRespond ==
    /\ pc = "assign"
    /\ result.entries = <<>>
    /\ pc' = "done"
    /\ \E generated \in {assignClassrooms(result.graph, result.schedule)} :
          response' = GraphResponse(generated)
    /\ UNCHANGED <<args, result, timetable>>

NextGraph ==
    \/ GraphStart
    \/ WelshPowellSort
    \/ DsaturFirst
    \/ WelshPowellColor
    \/ WelshPowellAssign
    \/ DsaturColor
    \/ DsaturNext
    \/ DsaturAssign
    \/ AssignClassroom
    \/ GraphRespond

NextGen ==
    \/ GreedyStart
    \/ GreedySession
    \/ GreedyRespond
    \/ NextGraph

SpecGen == InitGen /\ [][NextGen]_vars

\* the graph-colouring requests alone, served without pausing: a step the
\* scheduler can take is taken
InitGraph ==
    /\ InitGen
    /\ args.algorithm # "greedy"

SpecGraphFair == InitGraph /\ [][NextGraph]_vars /\ WF_vars(NextGraph)

GraphAlgorithms == {"welsh-powell", "dsatur"}

\* C1: in the schedule the greedy generator returns, any two entries that
\* share a day and whose teaching intervals [start, start + duration) overlap
\* differ in all of course, student group, teacher and classroom, for every
\* slot configuration (a 30-minute step included) and duration.
C1_GreedyConflictFree ==
    (pc = "done" /\ args.algorithm = "greedy") => ConflictFree(response.schedule)

\* with the default 60-minute step two sessions of a course were placed apart
C1_Witness ==
    /\ pc = "done"
    /\ args.algorithm = "greedy"
    /\ args.slots.step = 60
    /\ Len(response.schedule) >= 2
    /\ response.schedule[1].courseId = response.schedule[2].courseId
    /\ response.schedule[1].day = response.schedule[2].day
    /\ ~TeachingOverlap(response.schedule[1], response.schedule[2])

\* C2: in the schedule either graph-colouring variant returns, any two
\* entries that share a day and whose intervals [startTime, endTime) overlap
\* differ in all of course, student group, teacher and classroom, also for
\* durations longer than the slot step.
C2_GraphConflictFree ==
    (pc = "done" /\ args.algorithm \in GraphAlgorithms) => ConflictFree(response.schedule)

\* two sessions no longer than the step got different colours and do not overlap
C2_Witness ==
    /\ pc = "done"
    /\ args.algorithm \in GraphAlgorithms
    /\ args.slots.step = 60
    /\ Len(response.schedule) >= 2
    /\ response.schedule[1].duration = 60
    /\ response.schedule[1].courseId = response.schedule[2].courseId
    /\ response.schedule[1].day = response.schedule[2].day
    /\ ~TeachingOverlap(response.schedule[1], response.schedule[2])

\* generateTimetable has returned and its counts add up
GraphReturned ==
    /\ pc = "done"
    /\ args.algorithm \in GraphAlgorithms
    /\ response.totalSlots + response.unscheduled = response.metadata.totalNodes

\* C3: generateTimetable terminates under 'welsh-powell' and under 'dsatur',
\* also when some node has no feasible colour; such a node is counted as
\* unscheduled and on return totalSlots + unscheduled = metadata.totalNodes.
C3_GenerateTimetableTerminates ==
    (args.algorithm \in GraphAlgorithms) => <>GraphReturned

\* Welsh-Powell returns with a node that had no feasible colour counted as
\* unscheduled
C3_Witness ==
    /\ GraphReturned
    /\ args.algorithm = "welsh-powell"
    /\ response.unscheduled > 0

\* the classroom of the given identifier, among the request's classrooms
ClassroomOf(id) ==
    args.classrooms[CHOOSE i \in 1 .. Len(args.classrooms) : args.classrooms[i]._id = id]

\* the size of the student group of the given identifier
GroupSize(id) == IF id = LargeGroup._id THEN LargeGroup.size ELSE SmallGroup.size

\* C4: every entry output by the greedy generator and by either
\* graph-colouring variant is in a classroom whose capacity is at least the
\* size of the entry's student group.
C4_CapacitySuffices ==
    pc = "done" =>
        \A i \in 1 .. Len(response.schedule) :
            ClassroomOf(response.schedule[i].classroomId).capacity
                >= GroupSize(response.schedule[i].studentGroupId)

\* the too-small first classroom was skipped for the large group and used for
\* the small one
C4_Witness ==
    /\ pc = "done"
    /\ args.classrooms = <<SmallRoom, LargeRoom>>
    /\ \E i \in 1 .. Len(response.schedule) :
          /\ response.schedule[i].studentGroupId = LargeGroup._id
          /\ response.schedule[i].classroomId = LargeRoom._id
    /\ \E i \in 1 .. Len(response.schedule) :
          /\ response.schedule[i].studentGroupId = SmallGroup._id
          /\ response.schedule[i].classroomId = SmallRoom._id

(***************************************************************************)
(* Specification SpecKernel: checkConflicts called on a persisted          *)
(* collection, a pending schedule and a candidate, all with well-formed    *)
(* HH:MM times                                                             *)
(***************************************************************************)

Courses == {"c1", "c2"}
Groups == {"g1", "g2"}
Rooms == {"r1", "r2"}
Teachers == {"t1", "t2"}

MaxPersisted == 2
MaxPending == 6

\* the candidate placements: c1 / g1 / r1 / t1 on monday from 10:00
KernelCandidates ==
    {[courseId |-> "c1", studentGroupId |-> "g1", classroomId |-> "r1", teacherId |-> "t1",
      day |-> "monday", startTime |-> Time(10, 0), endTime |-> e] : e \in {Time(11, 0), Time(11, 30)}}

\* identifiers shared with the candidate c1 / g1 / r1 / t1: all four, exactly
\* one, or none
SharedIds ==
    {<<"c1", "g1", "r1", "t1">>, <<"c1", "g2", "r2", "t2">>, <<"c2", "g1", "r2", "t2">>,
     <<"c2", "g2", "r1", "t2">>, <<"c2", "g2", "r2", "t1">>, <<"c2", "g2", "r2", "t2">>}

\* monday entries overlapping the candidate (10:30-11:30), one per SharedIds
Overlapping ==
    {Entry(ids[1], ids[2], ids[3], ids[4], "monday", Time(10, 30), Time(11, 30), 60) :
        ids \in SharedIds}

\* entries sharing all four identifiers that only touch the candidate's
\* interval, or overlap it on another day
Touching ==
    {Entry("c1", "g1", "r1", "t1", "monday", Time(9, 0), Time(10, 0), 60),
     Entry("c1", "g1", "r1", "t1", "monday", Time(11, 0), Time(12, 0), 60)}
OtherDay == {Entry("c1", "g1", "r1", "t1", "tuesday", Time(10, 30), Time(11, 30), 60)}

KernelEntries == Overlapping \cup Touching \cup OtherDay

\* entries already persisted
KernelPersisted ==
    {e \in KernelEntries :
        /\ e.day = "monday"
        /\ e.startTime # Time(11, 0)
        /\ <<e.courseId, e.studentGroupId, e.classroomId>> \in
               {<<"c1", "g1", "r1">>, <<"c2", "g2", "r2">>}}

\* n pending monday entries that share exactly one identifier (subject) with
\* the candidate, hour after hour from 12:00
Family(subject, n) ==
    [i \in 1 .. n |->
        Entry("c2",
              IF subject = "group" THEN "g1" ELSE "g2",
              IF subject = "room" THEN "r1" ELSE "r2",
              IF subject = "teacher" THEN "t1" ELSE "t2",
              "monday", Time(11 + i, 0), Time(12 + i, 0), 60)]

KernelPending ==
    {Family(s, n) \o single :
        s \in {"teacher", "group", "room"}, n \in 0 .. MaxPending,
        single \in {<<>>} \cup {<<e>> : e \in KernelEntries}}

\* entity snapshots: unconstrained, or available on monday 09:00-11:00 only
Unconstrained(id) == [_id |-> id, name |-> " " \o id, availability |-> <<>>, blackoutPeriods |-> <<>>]
MorningOnly(id) ==
    [_id |-> id, name |-> " " \o id,
     availability |-> <<[day |-> "monday", slots |-> <<[start |-> Time(9, 0), end |-> Time(11, 0)]>>]>>,
     blackoutPeriods |-> <<>>]

KernelEntities ==
    {NoEntities,
     [teacher |-> MorningOnly("t1"), classroom |-> Unconstrained("r1"), studentGroup |-> Undefined]}

InitKernel ==
    /\ args = Undefined
    /\ result = Undefined
    /\ pc = "call"
    /\ timetable = <<>>
    /\ response = Undefined

\* the collection is filled through POST /timetable/generate/save
KernelSave ==
    /\ pc = "call"
    /\ Len(timetable) < MaxPersisted
    /\ \E e \in KernelPersisted : SaveGenerated(<<e>>)
    /\ UNCHANGED <<args, result, pc>>

CallCheckConflicts ==
    /\ pc = "call"
    /\ \E cand \in KernelCandidates, pending \in KernelPending, entities \in KernelEntities,
          exclude \in {NoId, 1} :
          /\ args' = [candidate |-> cand, pendingSchedule |-> pending, entities |-> entities,
                      excludeTimetableId |-> exclude]
          /\ result' = checkConflicts(timetable, cand.courseId, cand.studentGroupId,
                                      cand.classroomId, cand.teacherId, cand.day,
                                      cand.startTime, cand.endTime, exclude, pending, entities)
    /\ pc' = "done"
    /\ UNCHANGED <<timetable, response>>

NextKernel == KernelSave \/ CallCheckConflicts

SpecKernel == InitKernel /\ [][NextKernel]_vars

\* [s1, e1) and [s2, e2) overlap as intervals of minutes
IntervalsOverlap(s1, e1, s2, e2) ==
    toMinutes(s1) < toMinutes(e2) /\ toMinutes(s2) < toMinutes(e1)

\* the entries the call is about: the persisted ones other than the excluded
\* entry, and the pending ones
KernelConsidered ==
    LET kept == SelectSeq(timetable, LAMBDA e : e._id # args.excludeTimetableId)
    IN  [i \in 1 .. Len(kept) |-> Entry(kept[i].courseId, kept[i].studentGroupId,
                                        kept[i].classroomId, kept[i].teacherId, kept[i].day,
                                        kept[i].startTime, kept[i].endTime, kept[i].duration)]
        \o args.pendingSchedule

NumMessages(subject, text) ==
    Cardinality({i \in DOMAIN result : result[i].subject = subject /\ result[i].text = text})

\* entries on the candidate's day whose interval overlaps the candidate's and
\* whose identifier `field` is the candidate's
NumOverlapping(field) ==
    Cardinality({i \in DOMAIN KernelConsidered :
        /\ KernelConsidered[i].day = args.candidate.day
        /\ IntervalsOverlap(args.candidate.startTime, args.candidate.endTime,
                            KernelConsidered[i].startTime, KernelConsidered[i].endTime)
        /\ KernelConsidered[i][field] = args.candidate[field]})

\* C8: for each persisted or pending entry on the candidate's day whose
\* interval overlaps the candidate's [start, end), checkConflicts emits exactly
\* one message per identifier the entry shares with the candidate, and none
\* for an entry that shares no identifier, is on another day or only touches
\* the candidate's interval.
C8_OneMessagePerSharedIdentifier ==
    pc = "done" =>
        /\ NumMessages("Course", " already scheduled at this time")
               = NumOverlapping("courseId")
        /\ NumMessages("Student group", " already has a class at this time")
               = NumOverlapping("studentGroupId")
        /\ NumMessages("Classroom", " is already booked at this time")
               = NumOverlapping("classroomId")
        /\ NumMessages("Teacher", " already has a class at this time")
               = NumOverlapping("teacherId")

\* a persisted entry sharing all four identifiers overlaps the candidate and
\* a pending one only touches it: four messages, all for the persisted entry
C8_Witness ==
    /\ pc = "done"
    /\ Len(timetable) = 1
    /\ timetable[1].startTime = Time(10, 30)
    /\ timetable[1].courseId = "c1"
    /\ args.excludeTimetableId = NoId
    /\ args.candidate.endTime = Time(11, 0)
    /\ args.pendingSchedule = <<Entry("c1", "g1", "r1", "t1", "monday", Time(11, 0), Time(12, 0), 60)>>
    /\ args.entities = NoEntities
    /\ Len(result) = 4

\* entries on the candidate's day for which Shares holds, plus the candidate
NumOnDay(field) ==
    1 + Cardinality({i \in DOMAIN KernelConsidered :
            /\ KernelConsidered[i].day = args.candidate.day
            /\ KernelConsidered[i][field] = args.candidate[field]})

\* C9: checkConflicts returns a 'maximum daily lectures' message for the
\* teacher (student group, classroom) if and only if the persisted-plus-pending
\* entries on the candidate's day with that teacher (group, classroom), plus
\* the candidate, number more than the cap 4 (5, 6).
C9_CapMessageIffCountExceeds ==
    pc = "done" =>
        /\ NumMessages("Teacher", ExceedsText) > 0
               <=> NumOnDay("teacherId")
                       > maxTeacherDailyLectures
        /\ NumMessages("Student group", ExceedsText) > 0
               <=> NumOnDay("studentGroupId")
                       > maxGroupDailyLectures
        /\ NumMessages("Classroom", ExceedsText) > 0
               <=> NumOnDay("classroomId")
                       > maxClassroomDailyLectures

\* the test's scenario: four pending monday entries of teacher t1 and nothing
\* persisted; the fifth lecture gets the message
C9_PendingOnlyScenario ==
    /\ pc = "done"
    /\ timetable = <<>>
    /\ args.pendingSchedule = Family("teacher", 4)
    /\ NumMessages("Teacher", ExceedsText) = 1

(***************************************************************************)
(* Specification SpecAvailability: the availability filter on bounded      *)
(* entities and well-formed HH:MM intervals                                *)
(***************************************************************************)

Interval(start, end) == [start |-> start, end |-> end]

\* slot lists of an availability or blackout record
SlotLists ==
    {<<Interval(Time(9, 0), Time(10, 0))>>,
     <<Interval(Time(10, 0), Time(12, 0))>>,
     <<Interval(Time(9, 0), Time(12, 0))>>,
     <<Interval(Time(9, 0), Time(10, 0)), Interval(Time(11, 0), Time(12, 0))>>}

AvailabilityDays == {"monday", "tuesday"}

\* availability / blackoutPeriods: a list of records, one per day at most
DayRecords ==
    {<<>>}
    \cup {<<[day |-> d, slots |-> sl]>> : d \in AvailabilityDays, sl \in SlotLists}
    \cup {recs \in {<<[day |-> d1, slots |-> sl1], [day |-> d2, slots |-> sl2]>> :
                         d1 \in AvailabilityDays, d2 \in AvailabilityDays,
                         sl1 \in SlotLists, sl2 \in SlotLists} :
             recs[1].day # recs[2].day}

AvailabilityEntities ==
    {Undefined}
    \cup [_id : {"r1"}, name : {" r1"}, availability : DayRecords, blackoutPeriods : DayRecords]

\* the intervals [start, end) asked about
AskedIntervals ==
    {Interval(Time(9, 0), Time(10, 0)), Interval(Time(9, 30), Time(10, 30)),
     Interval(Time(10, 0), Time(11, 0)), Interval(Time(11, 0), Time(12, 0))}

InitAvailability ==
    /\ args \in [entity : AvailabilityEntities, day : AvailabilityDays, interval : AskedIntervals]
    /\ result = Undefined
    /\ pc = "call"
    /\ timetable = <<>>
    /\ response = Undefined

\* isWithinAvailability, and isClassroomAvailable when there is an entity to
\* take for the classroom
CallAvailability ==
    /\ pc = "call"
    /\ pc' = "done"
    /\ result' =
          [within |-> isWithinAvailability(args.entity, args.day,
                                           args.interval.start, args.interval.end),
           classroom |-> IF args.entity = Undefined THEN TRUE
                         ELSE isClassroomAvailable(args.entity, args.day,
                                                   args.interval.start, args.interval.end)]
    /\ UNCHANGED <<args, timetable, response>>

NextAvailability == CallAvailability

SpecAvailability == InitAvailability /\ [][NextAvailability]_vars

\* the slots recorded for `day` in a list of day records
SlotsOn(records, day) ==
    {records[i].slots[j] : <<i, j>> \in
        {p \in (1 .. Len(records)) \X (1 .. 2) :
            records[p[1]].day = day /\ p[2] <= Len(records[p[1]].slots)}}

\* within_availability as the claim states it
WithinAvailabilityStated(entity, day, start, end) ==
    \/ entity = Undefined
    \/ /\ \A slot \in SlotsOn(entity.blackoutPeriods, day) :
              ~IntervalsOverlap(start, end, slot.start, slot.end)
       /\ \/ entity.availability = <<>>
          \/ \E slot \in SlotsOn(entity.availability, day) :
                 /\ toMinutes(slot.start) <= toMinutes(start)
                 /\ toMinutes(end) <= toMinutes(slot.end)

\* C10: within_availability(entity, day, start, end) is true exactly when the
\* entity is absent, or no blackout slot recorded for that day overlaps
\* [start, end) and the entity either declares no availability at all or has,
\* for that day, a slot with slot.start <= start and end <= slot.end.
C10_WithinAvailabilityExact ==
    pc = "done" =>
        /\ result.within <=> WithinAvailabilityStated(args.entity, args.day,
                                                      args.interval.start, args.interval.end)
        /\ result.classroom <=> WithinAvailabilityStated(args.entity, args.day,
                                                         args.interval.start, args.interval.end)

\* availability declared, but with no record for the day asked about, and no
\* blackout: the answer is false
C10_Witness ==
    /\ pc = "done"
    /\ args.entity # Undefined
    /\ args.day = "tuesday"
    /\ Len(args.entity.availability) = 1
    /\ args.entity.availability[1].day = "monday"
    /\ args.entity.blackoutPeriods = <<>>
    /\ result.within = FALSE
    /\ result.classroom = FALSE

(***************************************************************************)
(* Specification SpecEndTime: the end-time routines on bounded inputs      *)
(***************************************************************************)

StartHours == 9 .. 16
StartMinutes == {0, 15, 30, 45}
StartTimes == {Time(h, m) : h \in StartHours, m \in StartMinutes}
Durations == {30, 45, 60, 90, 120, 150, 180}

InitEndTime ==
    /\ args \in [startTime : StartTimes, duration : Durations]
    /\ result = Undefined
    /\ pc = "call"
    /\ timetable = <<>>
    /\ response = Undefined

\* each routine applied to the same start and duration
ComputeEndTimes ==
    /\ pc = "call"
    /\ pc' = "done"
    /\ result' = [post    |-> InlineEndTime(args.startTime, args.duration),
                  put     |-> InlineEndTime(args.startTime, args.duration),
                  greedy  |-> InlineEndTime(args.startTime, args.duration),
                  genetic |-> calculateEndTime(args.startTime, args.duration),
                  graph   |-> calculateEndTime(args.startTime, args.duration)]
    /\ UNCHANGED <<args, timetable, response>>

NextEndTime == ComputeEndTimes

SpecEndTime == InitEndTime /\ [][NextEndTime]_vars

Routines == {"post", "put", "greedy", "genetic", "graph"}

\* C5: every end-time routine returns the zero-padded HH:MM of
\* minutes(start) + duration, with a minute field in 00..59 and carry into
\* the hour.
C5_EndTimeIsStartPlusDuration ==
    pc = "done" =>
        \A r \in Routines :
            /\ result[r].m \in 0 .. 59
            /\ TimeString(result[r]) = TimeString(EndOf(args.startTime, args.duration))

\* the spec's and the test's example: end_of('09:00', 90) = '10:30'
C5_Example ==
    /\ pc = "done"
    /\ args = [startTime |-> Time(9, 0), duration |-> 90]
    /\ \A r \in Routines : result[r] = Time(10, 30)

(***************************************************************************)
(* Specification SpecSlots: generateTimeSlots on bounded arguments         *)
(***************************************************************************)

SlotStarts == {Time(8, 30), Time(9, 0), Time(9, 15)}
SlotEnds == {Time(9, 0), Time(10, 0), Time(10, 30), Time(12, 0)}
SlotSteps == {15, 30, 45, 60}
SlotDurations == {30, 45, 60, 90, 120}

InitSlots ==
    /\ args \in [start : SlotStarts, end : SlotEnds, step : SlotSteps, duration : SlotDurations]
    /\ result = Undefined
    /\ pc = "call"
    /\ timetable = <<>>
    /\ response = Undefined

CallGenerateTimeSlots ==
    /\ pc = "call"
    /\ pc' = "done"
    /\ result' = generateTimeSlots(args.start, args.end, args.step, args.duration)
    /\ UNCHANGED <<args, timetable, response>>

NextSlots == CallGenerateTimeSlots

SpecSlots == InitSlots /\ [][NextSlots]_vars

\* start + k * step + duration <= end
SlotFits(k) == toMinutes(args.start) + k * args.step + args.duration <= toMinutes(args.end)

\* C11: generate_slots returns, ascending and without duplicates, exactly the
\* times start + k * step (k >= 0) with start + k * step + duration <= end,
\* and the empty sequence when start + duration > end.
C11_SlotsExact ==
    pc = "done" =>
        /\ \A i \in 1 .. Len(result) :
              /\ TimeString(result[i]) = TimeString(EndOf(args.start, (i - 1) * args.step))
              /\ result[i].m \in 0 .. 59
              /\ SlotFits(i - 1)
        /\ ~SlotFits(Len(result))
        /\ \A i, j \in 1 .. Len(result) : i < j => toMinutes(result[i]) < toMinutes(result[j])
        /\ (toMinutes(args.start) + args.duration > toMinutes(args.end) => result = <<>>)

\* the test's example: ('09:00', '12:00', 30, 90) gives 09:00, 09:30, 10:00, 10:30
C11_Witness ==
    /\ pc = "done"
    /\ args = [start |-> Time(9, 0), end |-> Time(12, 0), step |-> 30, duration |-> 90]
    /\ result = <<Time(9, 0), Time(9, 30), Time(10, 0), Time(10, 30)>>

(***************************************************************************)
(* Claims about the generated schedules (specification SpecGen)            *)
(***************************************************************************)

\* the course of the given identifier, among the request's courses
CourseOf(id) == args.courses[CHOOSE i \in 1 .. Len(args.courses) : args.courses[i]._id = id]

\* the student group of the given identifier, among the groups of a course
GroupOf(course, id) ==
    course.studentGroups[CHOOSE i \in 1 .. Len(course.studentGroups) :
                             course.studentGroups[i]._id = id]

\* check_conflicts for entry i of `schedule`, the entries before it pending,
\* its teacher, classroom and group as entities
Replay(schedule, i) ==
    checkConflicts(timetable, schedule[i].courseId, schedule[i].studentGroupId,
                   schedule[i].classroomId, schedule[i].teacherId, schedule[i].day,
                   schedule[i].startTime, schedule[i].endTime, NoId,
                   SubSeq(schedule, 1, i - 1),
                   [teacher |-> CourseOf(schedule[i].courseId).teacherId,
                    classroom |-> ClassroomOf(schedule[i].classroomId),
                    studentGroup |-> GroupOf(CourseOf(schedule[i].courseId),
                                             schedule[i].studentGroupId)])

\* C12: replaying the greedy generator's output in order through
\* check_conflicts, each entry with the previously accepted entries as pending
\* and its teacher, classroom and group as entities, yields no conflict.
C12_GreedyReplayClean ==
    (pc = "done" /\ args.algorithm = "greedy") =>
        \A i \in 1 .. Len(response.schedule) : Replay(response.schedule, i) = <<>>

\* a replayed entry that had to avoid an earlier one: it shares the teacher
\* and the day with its predecessor
C12_Witness ==
    /\ pc = "done"
    /\ args.algorithm = "greedy"
    /\ Len(response.schedule) >= 2
    /\ response.schedule[1].teacherId = response.schedule[2].teacherId
    /\ response.schedule[1].day = response.schedule[2].day
    /\ response.schedule[1].startTime # response.schedule[2].startTime
    /\ Replay(response.schedule, 2) = <<>>

\* the number of entries of `schedule` on `day` whose `field` is `id`
DailyCount(schedule, field, id, day) ==
    Cardinality({i \in 1 .. Len(schedule) : schedule[i].day = day /\ schedule[i][field] = id})

\* on every day the counts of every teacher, group and classroom are within the caps
WithinCaps(schedule) ==
    \A i \in 1 .. Len(schedule) :
        /\ DailyCount(schedule, "teacherId", schedule[i].teacherId, schedule[i].day)
              <= maxTeacherDailyLectures
        /\ DailyCount(schedule, "studentGroupId", schedule[i].studentGroupId, schedule[i].day)
              <= maxGroupDailyLectures
        /\ DailyCount(schedule, "classroomId", schedule[i].classroomId, schedule[i].day)
              <= maxClassroomDailyLectures

\* C13: in the output of the greedy generator and of both graph-colouring
\* variants, on every day at most 4 entries have the same teacher, at most 5
\* the same student group and at most 6 the same classroom.
C13_OutputWithinCaps == pc = "done" => WithinCaps(response.schedule)

\* the greedy generator moved a teacher's fifth lecture to the next day
C13_Witness ==
    /\ pc = "done"
    /\ args.algorithm = "greedy"
    /\ \E i \in 1 .. Len(response.schedule) :
          /\ DailyCount(response.schedule, "teacherId", response.schedule[i].teacherId, "monday")
                = maxTeacherDailyLectures
          /\ response.schedule[i].day = "tuesday"

\* entry e, taken as [startTime, end_of(startTime, duration)), passes
\* within_availability for its teacher, its student group and its classroom
EntryAvailable(e) ==
    LET end == EndOf(e.startTime, e.duration)
    IN  /\ WithinAvailabilityStated(CourseOf(e.courseId).teacherId, e.day, e.startTime, end)
        /\ WithinAvailabilityStated(GroupOf(CourseOf(e.courseId), e.studentGroupId), e.day,
                                    e.startTime, end)
        /\ WithinAvailabilityStated(ClassroomOf(e.classroomId), e.day, e.startTime, end)

\* C14: every entry of the graph-colouring output (both variants) passes
\* within_availability for its teacher, for its student group and for its
\* classroom.
C14_GraphOutputAvailable ==
    (pc = "done" /\ args.algorithm \in GraphAlgorithms) =>
        \A i \in 1 .. Len(response.schedule) : EntryAvailable(response.schedule[i])

\* a graph-colouring entry of the teacher with a tuesday window that happens
\* to fall inside the window
C14_Witness ==
    /\ pc = "done"
    /\ args.algorithm \in GraphAlgorithms
    /\ \E i \in 1 .. Len(response.schedule) :
          /\ response.schedule[i].teacherId = "t3"
          /\ response.schedule[i].day = "tuesday"
          /\ EntryAvailable(response.schedule[i])

(***************************************************************************)
(* GET /timetable                                                          *)
(***************************************************************************)

\* StudentGroup.find({students: userId}): the ids of the groups listing the user
StudentGroupsOf(userId) ==
    IF userId = "s1" THEN {"g1"}
    ELSE IF userId = "s3" THEN {"g1", "g2"}
    ELSE {}

\* a variant in which a teacherId given in the query is kept for a faculty user
TimetableFilterQueryFirst(user, query) ==
    [teacherId |-> IF query.teacherId # NoString THEN query.teacherId
                   ELSE IF user.role = "faculty" THEN user._id ELSE NoString,
     classroomId |-> query.classroomId,
     day |-> query.day,
     anyGroup |-> ~(query.studentGroupId # NoString \/ user.role = "student"),
     studentGroupId |->
         IF query.studentGroupId # NoString THEN {query.studentGroupId}
         ELSE IF user.role = "student" THEN StudentGroupsOf(user._id) ELSE {}]

\* the filter the handler builds; a key of NoString is not in the filter,
\* anyGroup says that studentGroupId is not in the filter
TimetableFilter(user, query) ==
    [teacherId |-> IF user.role = "faculty" THEN user._id ELSE query.teacherId,
     classroomId |-> query.classroomId,
     day |-> query.day,
     anyGroup |-> ~(query.studentGroupId # NoString \/ user.role = "student"),
     studentGroupId |->
         IF query.studentGroupId # NoString THEN {query.studentGroupId}
         ELSE IF user.role = "student" THEN StudentGroupsOf(user._id) ELSE {}]

\* the student branch answers { timetable: [] } without a timetable query
AnswersEmpty(user, query) ==
    /\ user.role = "student"
    /\ \/ StudentGroupsOf(user._id) = {}
       \/ query.studentGroupId # NoString /\ query.studentGroupId \notin StudentGroupsOf(user._id)

Matches(e, filter) ==
    /\ filter.teacherId # NoString => e.teacherId = filter.teacherId
    /\ filter.classroomId # NoString => e.classroomId = filter.classroomId
    /\ filter.day # NoString => e.day = filter.day
    /\ ~filter.anyGroup => e.studentGroupId \in filter.studentGroupId

\* the position of a day name in ascending string order
DayRank(day) ==
    CHOOSE r \in 1 .. 6 :
        <<"friday", "monday", "saturday", "thursday", "tuesday", "wednesday">>[r] = day

\* entry a sorts before entry b under sort({ day: 1, startTime: 1 })
SortsFirst(found, a, b) ==
    \/ DayRank(found[a].day) < DayRank(found[b].day)
    \/ /\ found[a].day = found[b].day
       /\ \/ /\ TimeString(found[a].startTime) # TimeString(found[b].startTime)
             /\ StrLeq(TimeString(found[a].startTime), TimeString(found[b].startTime))
          \/ TimeString(found[a].startTime) = TimeString(found[b].startTime) /\ a < b

\* Timetable.find(filter).populate(...).sort({ day: 1, startTime: 1 })
FindTimetable(persisted, filter) ==
    LET found == SelectSeq(persisted, LAMBDA e : Matches(e, filter))
    IN  [p \in 1 .. Len(found) |->
            found[CHOOSE i \in 1 .. Len(found) :
                      Cardinality({j \in 1 .. Len(found) : SortsFirst(found, j, i)}) = p - 1]]

\* GET /timetable for the authenticated user and the query string
GetTimetable(user, query) ==
    IF AnswersEmpty(user, query)
    THEN response' = [status |-> 200, timetable |-> <<>>, queried |-> FALSE]
    ELSE response' = [status |-> 200,
                      timetable |-> FindTimetable(timetable, TimetableFilter(user, query)),
                      queried |-> TRUE]

(***************************************************************************)
(* Specification SpecGet: one GET /timetable by a student, a faculty user  *)
(* or an admin over a stored timetable                                     *)
(***************************************************************************)

GetUsers ==
    {[_id |-> "s1", role |-> "student"], [_id |-> "s2", role |-> "student"],
     [_id |-> "s3", role |-> "student"], [_id |-> "t1", role |-> "faculty"],
     [_id |-> "a1", role |-> "admin"]}

GetQueries ==
    [studentGroupId : {NoString, "g1", "g2", "g3"}, teacherId : {NoString, "t1", "t2"},
     classroomId : {NoString, "r1"}, day : {NoString, "monday"}]

\* the stored timetable the requests read
StoredTimetable ==
    <<Document(Entry("c1", "g1", "r1", "t1", "tuesday", Time(9, 0), Time(10, 0), 60), 1),
      Document(Entry("c2", "g2", "r2", "t1", "monday", Time(10, 0), Time(11, 0), 60), 2),
      Document(Entry("c3", "g1", "r1", "t2", "monday", Time(9, 0), Time(10, 0), 60), 3),
      Document(Entry("c4", "g3", "r1", "t2", "monday", Time(11, 0), Time(12, 0), 60), 4),
      Document(Entry("c5", "g2", "r1", "t2", "friday", Time(9, 0), Time(10, 0), 60), 5)>>

InitGet ==
    /\ args \in [user : GetUsers, query : GetQueries]
    /\ result = Undefined
    /\ pc = "request"
    /\ timetable = StoredTimetable
    /\ response = Undefined

ServeGet ==
    /\ pc = "request"
    /\ pc' = "done"
    /\ GetTimetable(args.user, args.query)
    /\ UNCHANGED <<args, result, timetable>>

NextGet == ServeGet

SpecGet == InitGet /\ [][NextGet]_vars

\* C15: a student's response contains only entries of the groups the student
\* belongs to, and a studentGroupId outside those groups yields an empty list
\* with no timetable query; a faculty user's response contains only entries
\* taught by that user, whatever teacherId the query supplies.
C15_GetScopedToUser ==
    pc = "done" =>
        /\ args.user.role = "student" =>
              /\ \A i \in 1 .. Len(response.timetable) :
                    response.timetable[i].studentGroupId \in StudentGroupsOf(args.user._id)
              /\ (/\ args.query.studentGroupId # NoString
                  /\ args.query.studentGroupId \notin StudentGroupsOf(args.user._id))
                     => (response.timetable = <<>> /\ ~response.queried)
        /\ args.user.role = "faculty" =>
              \A i \in 1 .. Len(response.timetable) :
                  response.timetable[i].teacherId = args.user._id

\* faculty t1 asks for teacher t2's timetable and receives t1's own two entries
C15_Witness ==
    /\ pc = "done"
    /\ args.user._id = "t1"
    /\ args.query = [studentGroupId |-> NoString, teacherId |-> "t2", classroomId |-> NoString,
                     day |-> NoString]
    /\ Len(response.timetable) = 2
    /\ response.timetable[1]._id = 2
    /\ response.timetable[2]._id = 1

(***************************************************************************)
(* Genetic optimizer                                                       *)
(*                                                                         *)
(* The deviations and the fitness are multiples of 1/2 for the schedules   *)
(* examined here (at most two days, at most two teachers).  The model      *)
(* holds each of these numbers as twice its value: fitness 10 is held as   *)
(* 20, and the code's threshold 100 is Twice(100).                         *)
(***************************************************************************)

Twice(x) == 2 * x

\* the initial bestFitness, above every fitness
Infinity == 1000000000

\* array.find(x => x._id.toString() === id.toString())
FindIn(list, id) ==
    IF \E i \in 1 .. Len(list) : list[i]._id = id
    THEN list[CHOOSE i \in 1 .. Len(list) :
                  list[i]._id = id /\ \A j \in 1 .. i - 1 : list[j]._id # id]
    ELSE Undefined

\* a variant that draws from all the classrooms whatever their capacity
getRandomClassroomAny(classrooms, requiredCapacity) ==
    {classrooms[i] : i \in 1 .. Len(classrooms)}

\* the classrooms getRandomClassroom may return
getRandomClassroom(classrooms, requiredCapacity) ==
    IF \E i \in 1 .. Len(classrooms) : classrooms[i].capacity >= requiredCapacity
    THEN {classrooms[i] : i \in {j \in 1 .. Len(classrooms) :
                                     classrooms[j].capacity >= requiredCapacity}}
    ELSE {classrooms[i] : i \in 1 .. Len(classrooms)}

\* the genes createRandomChromosome may build for one session
RandomGenes(session, classrooms, config) ==
    {Entry(session.course._id, session.studentGroup._id, classroom._id,
           session.course.teacherId._id, config.days[d], config.timeSlots[t],
           calculateEndTime(config.timeSlots[t], session.course.duration),
           session.course.duration) :
        classroom \in getRandomClassroom(classrooms, session.studentGroup.size),
        d \in 1 .. Len(config.days), t \in 1 .. Len(config.timeSlots)}

\* the chromosomes createRandomChromosome may return: one gene per session
createRandomChromosome(courses, classrooms, config) ==
    LET sessions == GreedySessions(courses)
        genes == UNION {RandomGenes(sessions[i], classrooms, config) : i \in 1 .. Len(sessions)}
    IN  {chromosome \in [1 .. Len(sessions) -> genes] :
            \A i \in 1 .. Len(sessions) :
                chromosome[i] \in RandomGenes(sessions[i], classrooms, config)}

\* chromosome.slice(0, i).concat(chromosome.slice(i + 1))
OtherGenes(chromosome, i) ==
    SubSeq(chromosome, 1, i - 1) \o SubSeq(chromosome, i + 1, Len(chromosome))

RECURSIVE SumSeq(_)
SumSeq(values) == IF values = <<>> THEN 0 ELSE Head(values) + SumSeq(Tail(values))

\* twice Math.sqrt(variance) of a non-empty list of counts: the r with
\* (r/2)^2 = sum((v - mean)^2) / k, for mean = total / k
TwiceDeviation(values) ==
    LET k == Len(values)
        total == SumSeq(values)
        squares == SumSeq([i \in 1 .. k |-> (k * values[i] - total) * (k * values[i] - total)])
    IN  CHOOSE r \in 0 .. 2 * total + 1 : r * r * k * k * k = 4 * squares

\* calculateDayDistribution, held as twice its value
calculateDayDistribution(chromosome, days) ==
    TwiceDeviation([d \in 1 .. Len(days) |->
                       Cardinality({i \in 1 .. Len(chromosome) : chromosome[i].day = days[d]})])

\* calculateTeacherWorkload, held as twice its value
calculateTeacherWorkload(chromosome) ==
    LET first == {i \in 1 .. Len(chromosome) :
                     \A j \in 1 .. i - 1 : chromosome[j].teacherId # chromosome[i].teacherId}
        ids == SelectSeq([i \in 1 .. Len(chromosome) |-> i], LAMBDA i : i \in first)
        workloads ==
            [n \in 1 .. Len(ids) |->
                Cardinality({i \in 1 .. Len(chromosome) :
                                chromosome[i].teacherId = chromosome[ids[n]].teacherId})]
    IN  IF workloads = <<>> THEN 0 ELSE TwiceDeviation(workloads)

\* c.includes('already scheduled') || c.includes('already has a class') ||
\* c.includes('already booked'), on the text of the message
HardViolation(c) ==
    c.text \in {" already scheduled at this time", " already has a class at this time",
                " is already booked at this time"}

\* c.includes('not available')
SoftViolation(c) == c.text = NotAvailableText

\* the checkConflicts call for gene i of the chromosome
GeneConflicts(persisted, chromosome, i, teachers, classrooms, studentGroups) ==
    checkConflicts(persisted, chromosome[i].courseId, chromosome[i].studentGroupId,
                   chromosome[i].classroomId, chromosome[i].teacherId, chromosome[i].day,
                   chromosome[i].startTime, chromosome[i].endTime, NoId,
                   OtherGenes(chromosome, i),
                   [teacher |-> FindIn(teachers, chromosome[i].teacherId),
                    classroom |-> FindIn(classrooms, chromosome[i].classroomId),
                    studentGroup |-> FindIn(studentGroups, chromosome[i].studentGroupId)])

\* calculateFitness(chromosome) while the Timetable collection holds `persisted`;
\* fitness is held as twice its value
calculateFitness(persisted, chromosome, teachers, classrooms, studentGroups, days) ==
    LET conflictLists ==
            [i \in 1 .. Len(chromosome) |->
                GeneConflicts(persisted, chromosome, i, teachers, classrooms, studentGroups)]
        hard == SumSeq([i \in 1 .. Len(chromosome) |->
                           Len(SelectSeq(conflictLists[i], HardViolation))])
        soft == SumSeq([i \in 1 .. Len(chromosome) |->
                           Len(SelectSeq(conflictLists[i], SoftViolation))])
    IN  [fitness |-> Twice(hard * 1000) + Twice(soft * 100)
                       + calculateDayDistribution(chromosome, days) * 10
                       + calculateTeacherWorkload(chromosome) * 5,
         conflicts |-> SumSeq([i \in 1 .. Len(chromosome) |-> Len(conflictLists[i])]),
         hardConstraintViolations |-> hard,
         softConstraintViolations |-> soft]

(***************************************************************************)
(* Specification SpecFitness: one chromosome evaluated while the Timetable *)
(* collection holds one of two sets of entries                             *)
(***************************************************************************)

GaTeachers == <<GenTeacher("t1"), GenTeacher("t3")>>
GaGroups == <<LargeGroup, SmallGroup>>
GaClassrooms == <<SmallRoom, LargeRoom>>

\* config.days and config.timeSlots of the runs examined
GaConfig == [days |-> <<"monday", "tuesday">>, timeSlots |-> <<Time(9, 0), Time(10, 0)>>]

GaCourseLists ==
    {<<GenCourse("c1", "t1", <<LargeGroup>>, 2, 60)>>,
     <<GenCourse("c1", "t1", <<LargeGroup>>, 1, 60), GenCourse("c2", "t3", <<SmallGroup>>, 1, 60)>>}

\* what the Timetable collection may hold
GaStores ==
    {<<>>,
     <<Document(Entry("c9", "g9", "r9", "t1", "monday", Time(9, 0), Time(10, 0), 60), 1)>>,
     <<Document(Entry("c9", "g1", "r2", "t9", "tuesday", Time(10, 0), Time(11, 0), 60), 1)>>}

InitFitness ==
    /\ \E courses \in GaCourseLists :
          args \in [chromosome : createRandomChromosome(courses, GaClassrooms, GaConfig),
                    first : GaStores, second : GaStores]
    /\ result = Undefined
    /\ pc = "evaluate"
    /\ timetable = args.first
    /\ response = Undefined

\* the chromosome is evaluated, the collection changes, and it is evaluated again
EvaluateFirst ==
    /\ pc = "evaluate"
    /\ result' = [first |-> calculateFitness(timetable, args.chromosome, GaTeachers,
                                             GaClassrooms, GaGroups, GaConfig.days)]
    /\ timetable' = args.second
    /\ pc' = "again"
    /\ UNCHANGED <<args, response>>

EvaluateSecond ==
    /\ pc = "again"
    /\ response' = calculateFitness(timetable, args.chromosome, GaTeachers, GaClassrooms,
                                    GaGroups, GaConfig.days)
    /\ pc' = "done"
    /\ UNCHANGED <<args, result, timetable>>

NextFitness == EvaluateFirst \/ EvaluateSecond

SpecFitness == InitFitness /\ [][NextFitness]_vars

\* C18: the fitness record of a chromosome is the same whatever entries the
\* Timetable collection holds when it is evaluated.
C18_FitnessIgnoresPersisted ==
    pc = "done" => response = result.first

\* the same chromosome scores no hard violation over the empty collection and
\* two over a collection holding a monday 09:00 lecture of teacher t1
C18_Witness ==
    /\ pc = "done"
    /\ args.first = <<>>
    /\ result.first.hardConstraintViolations = 0
    /\ response.hardConstraintViolations > 0
    /\ response.fitness >= result.first.fitness + Twice(1000)

(***************************************************************************)
(* Genetic optimizer: evolve                                               *)
(*                                                                         *)
(* A gene object is written only while createRandomChromosome or mutate    *)
(* builds it (mutate copies the array and the gene before changing it),    *)
(* so chromosomes are values here.                                         *)
(***************************************************************************)

\* the chromosome tournamentSelection returns for the drawn indices
TournamentWinner(population, fitnessScores, drawn) ==
    population[drawn[CHOOSE k \in 1 .. Len(drawn) :
                         /\ \A j \in 1 .. Len(drawn) :
                               fitnessScores[drawn[k]].fitness <= fitnessScores[drawn[j]].fitness
                         /\ \A j \in 1 .. k - 1 :
                               fitnessScores[drawn[j]].fitness > fitnessScores[drawn[k]].fitness]]

\* the chromosomes tournamentSelection may return, tournamentSize = 3
tournamentSelection(population, fitnessScores) ==
    {TournamentWinner(population, fitnessScores, drawn) :
        drawn \in [1 .. 3 -> 1 .. Len(population)]}

\* the pairs crossover may return
crossover(parent1, parent2) ==
    {<<parent1, parent2>>}
    \cup {<<SubSeq(parent1, 1, point) \o SubSeq(parent2, point + 1, Len(parent2)),
            SubSeq(parent2, 1, point) \o SubSeq(parent1, point + 1, Len(parent1))>> :
             point \in {k \in 0 .. Len(parent1) : k = 0 \/ (k < Len(parent1) /\ k < Len(parent2))}}

\* the genes mutate may put in the place of `gene`
MutateGene(gene, classrooms, studentGroups, config) ==
    {gene}
    \cup {[gene EXCEPT !.startTime = config.timeSlots[t],
                       !.endTime = calculateEndTime(config.timeSlots[t], gene.duration)] :
             t \in 1 .. Len(config.timeSlots)}
    \cup {[gene EXCEPT !.day = config.days[d]] : d \in 1 .. Len(config.days)}
    \cup (IF FindIn(studentGroups, gene.studentGroupId) # Undefined
          THEN {[gene EXCEPT !.classroomId = classroom._id] :
                   classroom \in getRandomClassroom(classrooms,
                                     FindIn(studentGroups, gene.studentGroupId).size)}
          ELSE {})

\* the chromosomes mutate may return
mutate(chromosome, classrooms, studentGroups, config) ==
    LET genes == UNION {MutateGene(chromosome[i], classrooms, studentGroups, config) :
                           i \in 1 .. Len(chromosome)}
    IN  {mutated \in [1 .. Len(chromosome) -> genes] :
            \A i \in 1 .. Len(chromosome) :
                mutated[i] \in MutateGene(chromosome[i], classrooms, studentGroups, config)}

\* Math.floor(populationSize * elitismRate), the rate given in percent
EliteCount(config) == (config.populationSize * config.elitismRate) \div 100

\* the elite: the chromosomes of the eliteCount lowest fitness scores, ties in
\* population order
Elite(population, fitnessScores, eliteCount) ==
    [p \in 1 .. eliteCount |->
        population[CHOOSE i \in 1 .. Len(population) :
                       Cardinality({j \in 1 .. Len(population) :
                                       \/ fitnessScores[j].fitness < fitnessScores[i].fitness
                                       \/ /\ fitnessScores[j].fitness = fitnessScores[i].fitness
                                          /\ j < i}) = p - 1]]

\* the pairs of mutated children one pass of the offspring loop may produce
Offspring(population, fitnessScores, classrooms, studentGroups, config) ==
    UNION {{<<child1, child2>> :
               child1 \in mutate(children[1], classrooms, studentGroups, config),
               child2 \in mutate(children[2], classrooms, studentGroups, config)} :
           children \in UNION {crossover(parent1, parent2) :
                                  parent1 \in tournamentSelection(population, fitnessScores),
                                  parent2 \in tournamentSelection(population, fitnessScores)}}

\* while (newPopulation.length < populationSize): the populations the loop may build
RECURSIVE FillPopulation(_, _, _)
FillPopulation(newPopulation, offspring, populationSize) ==
    IF Len(newPopulation) >= populationSize THEN {newPopulation}
    ELSE UNION {FillPopulation(IF Len(newPopulation) + 1 < populationSize
                               THEN newPopulation \o pair
                               ELSE Append(newPopulation, pair[1]),
                               offspring, populationSize) : pair \in offspring}

(***************************************************************************)
(* Specification SpecEvolve: one run of evolve, one fitness evaluation per *)
(* step, while another request may store entries in the collection         *)
(***************************************************************************)

MaxPopulation == 2
MaxStored == 2

\* maxGenerations of the runs examined
GenerationLimits == {2, 12}

\* elitismRate in percent
ElitismRates == {20, 50}

EvolveCourses == <<GenCourse("c1", "t1", <<LargeGroup>>, 1, 60)>>

\* the entries another request may store while evolve is suspended
StoredByOthers == {Entry("c9", "g9", "r9", "t1", "monday", Time(10, 0), Time(11, 0), 60)}

InitEvolve ==
    /\ args \in [algorithm : {"genetic"}, populationSize : 1 .. MaxPopulation,
                 maxGenerations : GenerationLimits, elitismRate : ElitismRates]
    /\ result = Undefined
    /\ pc = "request"
    /\ timetable \in {<<>>,
                      <<Document(Entry("c9", "g9", "r9", "t1", "monday", Time(9, 0),
                                       Time(10, 0), 60), 1)>>}
    /\ response = Undefined

\* lines 1012-1019: the random population and the loop variables; evaluatedMinimum,
\* staleGenerations and improved record what the run has done so far
EvolveStart ==
    /\ pc = "request"
    /\ args.algorithm = "genetic"
    /\ \E population \in [1 .. args.populationSize ->
                             createRandomChromosome(EvolveCourses, GaClassrooms, GaConfig)] :
          result' = [population |-> population, fitnessScores |-> <<>>,
                     bestFitness |-> Infinity, bestChromosome |-> <<>>,
                     generationsSinceImprovement |-> 0, generation |-> 0,
                     evaluatedMinimum |-> Infinity, staleGenerations |-> 0,
                     improved |-> FALSE]
    /\ pc' = "fitness"
    /\ UNCHANGED <<args, timetable, response>>

\* lines 1024-1036: one iteration of `for (const chromosome of population)`
EvolveFitness ==
    /\ pc = "fitness"
    /\ \E fitness \in {calculateFitness(timetable,
                                        result.population[Len(result.fitnessScores) + 1],
                                        GaTeachers, GaClassrooms, GaGroups, GaConfig.days)} :
          LET better == fitness.fitness < result.bestFitness
              last == Len(result.fitnessScores) + 1 = Len(result.population)
              improved == result.improved \/ better
          IN  /\ result' =
                    [result EXCEPT
                        !.fitnessScores = Append(@, fitness),
                        !.bestFitness = IF better THEN fitness.fitness ELSE @,
                        !.bestChromosome =
                            IF better THEN result.population[Len(result.fitnessScores) + 1]
                            ELSE @,
                        !.generationsSinceImprovement = IF better THEN 0 ELSE @ + 1,
                        !.evaluatedMinimum = IF fitness.fitness < @ THEN fitness.fitness ELSE @,
                        !.improved = IF last THEN FALSE ELSE improved,
                        !.staleGenerations = IF ~last THEN @ ELSE IF improved THEN 0 ELSE @ + 1]
              /\ pc' = IF last THEN "generation" ELSE "fitness"
    /\ UNCHANGED <<args, timetable, response>>

\* lines 1041-1044: the early termination
EvolveBreak ==
    /\ pc = "generation"
    /\ result.generationsSinceImprovement > 20
    /\ result.bestFitness < Twice(100)
    /\ pc' = "final"
    /\ UNCHANGED <<args, result, timetable, response>>

\* lines 1046-1074: the next population
EvolveBreed ==
    /\ pc = "generation"
    /\ ~(result.generationsSinceImprovement > 20 /\ result.bestFitness < Twice(100))
    /\ \E newPopulation \in
              FillPopulation(Elite(result.population, result.fitnessScores, EliteCount(args)),
                             Offspring(result.population, result.fitnessScores, GaClassrooms,
                                       GaGroups, GaConfig),
                             args.populationSize) :
          result' = [result EXCEPT !.population = newPopulation, !.fitnessScores = <<>>,
                                   !.generation = @ + 1]
    /\ pc' = IF result.generation + 1 < args.maxGenerations THEN "fitness" ELSE "final"
    /\ UNCHANGED <<args, timetable, response>>

\* lines 1077-1092
EvolveReturn ==
    /\ pc = "final"
    /\ response' =
           [schedule |-> result.bestChromosome,
            fitness |-> calculateFitness(timetable, result.bestChromosome, GaTeachers,
                                         GaClassrooms, GaGroups, GaConfig.days),
            metadata |->
                [algorithm |-> "genetic",
                 generations |->
                     IF args.maxGenerations < result.generationsSinceImprovement + 1
                     THEN args.maxGenerations ELSE result.generationsSinceImprovement + 1,
                 populationSize |-> args.populationSize]]
    /\ pc' = "done"
    /\ UNCHANGED <<args, result, timetable>>

\* POST /timetable/generate/save of another request, served while evolve awaits
\* a Timetable.find
OtherRequestSaves ==
    /\ pc \in {"fitness", "generation", "final"}
    /\ Len(timetable) < MaxStored
    /\ \E e \in StoredByOthers : timetable' = insertMany(timetable, <<e>>)
    /\ UNCHANGED <<args, result, pc, response>>

NextEvolve ==
    EvolveStart \/ EvolveFitness \/ EvolveBreak \/ EvolveBreed \/ EvolveReturn
        \/ OtherRequestSaves

SpecEvolve == InitEvolve /\ [][NextEvolve]_vars

\* C19: evolve returns the best chromosome seen: the tracked best fitness never
\* increases and equals the minimum over all fitness values evaluated, the best
\* chromosome changes only when a lower fitness is found, a best chromosome
\* exists when the loop ends, and the returned schedule is that chromosome with
\* a reported fitness equal to the recorded minimum.
C19_ReturnsBestSeen ==
    [][pc # "request" =>
          /\ result'.bestFitness <= result.bestFitness
          /\ result'.bestFitness = result'.evaluatedMinimum
          /\ result'.bestFitness = result.bestFitness =>
                result'.bestChromosome = result.bestChromosome
          /\ pc' = "final" => result'.bestFitness < Infinity
          /\ pc' = "done" =>
                /\ response'.schedule = result'.bestChromosome
                /\ response'.fitness.fitness = result'.evaluatedMinimum]_vars

\* evolve has returned a schedule with a fitness above the minimum it recorded
C19_Witness ==
    /\ pc = "done"
    /\ response.schedule = result.bestChromosome
    /\ result.bestFitness = result.evaluatedMinimum
    /\ response.fitness.fitness > result.evaluatedMinimum

\* C20: the generational loop ends before maxGenerations exactly when 20
\* consecutive generations have brought no improvement of the best fitness and
\* the best fitness is below 100.
C20_EarlyStopAfterTwentyGenerations ==
    pc = "final" =>
        (result.generation < args.maxGenerations
            <=> (result.staleGenerations >= 20 /\ result.bestFitness < Twice(100)))

\* the loop has ended early although fewer than 20 generations went by without
\* an improvement
C20_Witness ==
    /\ pc = "final"
    /\ result.generation < args.maxGenerations
    /\ result.staleGenerations < 20
    /\ result.generationsSinceImprovement > 20

\* the gene's classroom holds the gene's student group, when any classroom does
GeneFits(gene) ==
    LET studentGroup == FindIn(GaGroups, gene.studentGroupId)
    IN  (\E i \in 1 .. Len(GaClassrooms) : GaClassrooms[i].capacity >= studentGroup.size)
            => FindIn(GaClassrooms, gene.classroomId).capacity >= studentGroup.size

ChromosomeFits(chromosome) == \A i \in 1 .. Len(chromosome) : GeneFits(chromosome[i])

\* C21: whenever some classroom is large enough for a gene's student group, the
\* gene's classroom is large enough, in every chromosome of every population,
\* in the best chromosome and in the returned schedule.
C21_GenesKeepCapacity ==
    /\ pc \in {"fitness", "generation", "final", "done"} =>
          /\ \A n \in 1 .. Len(result.population) : ChromosomeFits(result.population[n])
          /\ ChromosomeFits(result.bestChromosome)
    /\ pc = "done" => ChromosomeFits(response.schedule)

\* a run of several generations has returned a schedule whose gene sits in the
\* large classroom r2, the only one that holds group g1
C21_Witness ==
    /\ pc = "done"
    /\ result.generation >= 2
    /\ Len(response.schedule) = 1
    /\ response.schedule[1].classroomId = "r2"
    /\ response.schedule[1].studentGroupId = "g1"

(***************************************************************************)
(* GET /timetable/generate/compare                                         *)
(***************************************************************************)

\* course.teacherId._id of a course whose populated teacher is null throws, in
\* initializeGraph as in createRandomChromosome, as soon as the course has a node
TeacherMissing(courses) ==
    \E i \in 1 .. Len(courses) :
        courses[i].teacherId = Undefined /\ Len(courses[i].studentGroups) > 0

\* getRandomClassroom(...)._id throws when there is no classroom at all
GeneticThrows(courses, classrooms) ==
    \/ TeacherMissing(courses)
    \/ classrooms = <<>> /\ \E i \in 1 .. Len(courses) : Len(courses[i].studentGroups) > 0

\* results.x = { error: error.message }
ErrorRecord == [error |-> TRUE]

\* the key of `results` an algorithm's record is stored under
ResultKey(algorithm) == IF algorithm = "welsh-powell" THEN "welsh_powell" ELSE algorithm

\* the algorithm run after `algorithm`
NextAlgorithm(algorithm) == IF algorithm = "dsatur" THEN "welsh-powell" ELSE "genetic"

(***************************************************************************)
(* Specification SpecCompareFair: one compare request, served without      *)
(* pausing; the two colourings run step by step, evolve is taken as one    *)
(* step that returns or throws                                             *)
(***************************************************************************)

\* a course whose teacher document no longer exists
OrphanCourse ==
    [_id |-> "c3", teacherId |-> Undefined, studentGroups |-> <<SmallGroup>>, frequency |-> 1,
     duration |-> 60]

CompareCourseLists ==
    {<<GenCourse("c1", "t1", <<SmallGroup>>, 2, 60)>>,
     <<GenCourse("c1", "t1", <<LargeGroup>>, 1, 60)>>,
     <<GenCourse("c1", "t1", <<LargeGroup, SmallGroup>>, 1, 60),
       GenCourse("c2", "t2", <<SmallGroup>>, 1, 60)>>,
     <<GenCourse("c1", "t1", <<SmallGroup>>, 1, 60), OrphanCourse>>}

InitCompare ==
    /\ args \in [algorithm : {"dsatur"}, courses : CompareCourseLists,
                 classrooms : GenClassroomLists, slots : GenSlotConfigs,
                 results : {[dsatur |-> Undefined, welsh_powell |-> Undefined,
                             genetic |-> Undefined]}]
    /\ result = Undefined
    /\ pc = "compare"
    /\ timetable = <<>>
    /\ response = Undefined

\* try { new GraphColoringTimetableScheduler(...).generateTimetable() ...: the
\* run starts, or throws at once and its error is recorded
CompareGraphRun ==
    /\ pc = "compare"
    /\ args.algorithm \in GraphAlgorithms
    /\ IF TeacherMissing(args.courses)
       THEN /\ args' = [args EXCEPT !.results[ResultKey(args.algorithm)] = ErrorRecord,
                                    !.algorithm = NextAlgorithm(args.algorithm)]
            /\ pc' = "compare"
       ELSE /\ pc' = "request"
            /\ UNCHANGED args
    /\ UNCHANGED <<result, timetable, response>>

\* results.dsatur = {...} / results.welsh_powell = {...} from the returned result
CompareGraphRecord ==
    /\ pc = "done"
    /\ "results" \in DOMAIN args
    /\ args' = [args EXCEPT
                   !.results[ResultKey(args.algorithm)] =
                       [totalSlots |-> response.totalSlots, unscheduled |-> response.unscheduled],
                   !.algorithm = NextAlgorithm(args.algorithm)]
    /\ pc' = "compare"
    /\ result' = Undefined
    /\ response' = Undefined
    /\ UNCHANGED timetable

\* the genetic run and res.json({ comparison: results, ... })
CompareGenetic ==
    /\ pc = "compare"
    /\ args.algorithm = "genetic"
    /\ \E record \in {IF GeneticThrows(args.courses, args.classrooms) THEN ErrorRecord
                      ELSE [totalSlots |-> Len(GreedySessions(args.courses))]} :
          /\ args' = [args EXCEPT !.results.genetic = record]
          /\ response' = [comparison |-> [args.results EXCEPT !.genetic = record]]
    /\ pc' = "responded"
    /\ UNCHANGED <<result, timetable>>

NextCompare == CompareGraphRun \/ CompareGraphRecord \/ CompareGenetic \/ NextGraph

SpecCompareFair == InitCompare /\ [][NextCompare]_vars /\ WF_vars(NextCompare)

CompareAnswered ==
    /\ pc = "responded"
    /\ response.comparison.dsatur # Undefined
    /\ response.comparison.welsh_powell # Undefined
    /\ response.comparison.genetic # Undefined

\* C22: every compare request is answered, and the answer holds a record for
\* each of dsatur, welsh_powell and genetic, the record of a failed run being
\* its error.
C22_CompareAnswersAll == <>CompareAnswered

\* the three runs all failed on the course without teacher and the answer
\* holds their three error records
C22_Witness ==
    /\ pc = "responded"
    /\ response.comparison.dsatur = ErrorRecord
    /\ response.comparison.welsh_powell = ErrorRecord
    /\ response.comparison.genetic = ErrorRecord

(***************************************************************************)
(* Specification SpecKernelTwice: checkConflicts called twice with the     *)
(* same arguments against the same collection; Timetable.find has no sort, *)
(* so each call may see the stored entries in any order                    *)
(***************************************************************************)

\* a variant in which the candidate is pushed onto the caller's pending list
PendingAfterPush(pendingSchedule, candidate) ==
    Append(pendingSchedule,
           Entry(candidate.courseId, candidate.studentGroupId, candidate.classroomId,
                 candidate.teacherId, candidate.day, candidate.startTime, candidate.endTime, 60))

\* the caller's pendingSchedule after the call: filter and concat build new
\* arrays and leave it as it was
PendingAfter(pendingSchedule, candidate) == pendingSchedule

\* the caller's entity records after the call: they are only read
EntitiesAfter(entities) == entities

\* the orders in which Timetable.find may return the stored entries
FindOrders(persisted) ==
    {[i \in 1 .. Len(persisted) |-> persisted[f[i]]] : f \in Permutations(1 .. Len(persisted))}

TwicePending == {pending \in KernelPending : Len(pending) <= 2}

KernelFirstCall ==
    /\ pc = "call"
    /\ \E cand \in KernelCandidates, pending \in TwicePending, entities \in KernelEntities,
          exclude \in {NoId, 1}, found \in FindOrders(timetable) :
          /\ args' = [candidate |-> cand, given |-> [pendingSchedule |-> pending,
                                                     entities |-> entities],
                      pendingSchedule |-> PendingAfter(pending, cand),
                      entities |-> EntitiesAfter(entities),
                      excludeTimetableId |-> exclude]
          /\ result' = checkConflicts(found, cand.courseId, cand.studentGroupId,
                                      cand.classroomId, cand.teacherId, cand.day,
                                      cand.startTime, cand.endTime, exclude, pending, entities)
    /\ pc' = "again"
    /\ UNCHANGED <<timetable, response>>

\* the second call is given the caller's list and records as the first call left them
KernelSecondCall ==
    /\ pc = "again"
    /\ \E found \in FindOrders(timetable) :
          /\ response' = checkConflicts(found, args.candidate.courseId,
                                        args.candidate.studentGroupId,
                                        args.candidate.classroomId, args.candidate.teacherId,
                                        args.candidate.day, args.candidate.startTime,
                                        args.candidate.endTime, args.excludeTimetableId,
                                        args.pendingSchedule, args.entities)
          /\ args' = [args EXCEPT
                         !.pendingSchedule = PendingAfter(args.pendingSchedule, args.candidate),
                         !.entities = EntitiesAfter(args.entities)]
    /\ pc' = "done"
    /\ UNCHANGED <<result, timetable>>

NextKernelTwice == KernelSave \/ KernelFirstCall \/ KernelSecondCall

SpecKernelTwice == InitKernel /\ [][NextKernelTwice]_vars

\* how many times the message occurs in the list
Occurrences(conflicts, message) ==
    Cardinality({i \in 1 .. Len(conflicts) : conflicts[i] = message})

RouteGeneratorArgs ==
    [algorithm : Algorithms,
     courses : {<<GenCourse("c1", "t1", <<SmallGroup>>, 2, 60)>>,
                <<GenCourse("c1", "t1", <<SmallGroup>>, 1, 60),
                  GenCourse("c2", "t1", <<SmallGroup>>, 1, 60)>>},
     classrooms : {<<SmallRoom, LargeRoom>>},
     slots : {[start |-> Time(9, 0), end |-> Time(12, 0), step |-> 60]}]

\* the inputs of GET /generate/genetic
RouteGeneticArgs ==
    [algorithm : {"genetic"}, populationSize : {1}, maxGenerations : {2}, elitismRate : {20}]

\* the inputs of GET /generate/compare
RouteCompareArgs ==
    [algorithm : {"dsatur"}, courses : {<<GenCourse("c1", "t1", <<SmallGroup>>, 2, 60)>>},
     classrooms : {<<SmallRoom, LargeRoom>>},
     slots : {[start |-> Time(9, 0), end |-> Time(12, 0), step |-> 60]},
     results : {[dsatur |-> Undefined, welsh_powell |-> Undefined, genetic |-> Undefined]}]

\* the bodies of POST /timetable
RoutePostBodies ==
    {[courseId |-> "c1", studentGroupId |-> "g2", classroomId |-> "r1", teacherId |-> "t1",
      day |-> "monday", startTime |-> st, duration |-> 60] : st \in {Time(9, 0), Time(10, 0)}}

\* the bodies of PUT /timetable/:id
RoutePutBodies ==
    [day : {NoString, "tuesday"}, startTime : {Undefined}, duration : {Absent},
     classroomId : {NoString, "r2"}]

\* the schedules submitted to POST /timetable/generate/save: twice the same
\* placement, or what the last generation answered
SubmittedSchedules ==
    {<<Entry("c1", "g2", "r1", "t1", "monday", Time(9, 0), Time(10, 0), 60),
       Entry("c1", "g2", "r1", "t1", "monday", Time(9, 0), Time(10, 0), 60)>>}
    \cup (IF response # Undefined /\ "schedule" \in DOMAIN response /\ "totalSlots" \in DOMAIN response
          THEN {response.schedule} ELSE {})

InitRoutes ==
    /\ args = Undefined
    /\ result = Undefined
    /\ pc = "idle"
    /\ timetable = <<>>
    /\ response = Undefined

\* a generation request arrives
RouteGenerate ==
    /\ pc = "idle"
    /\ args' \in RouteGeneratorArgs \cup RouteGeneticArgs
    /\ pc' = "request"
    /\ result' = Undefined
    /\ response' = Undefined
    /\ UNCHANGED timetable

RouteCompare ==
    /\ pc = "idle"
    /\ args' \in RouteCompareArgs
    /\ pc' = "compare"
    /\ result' = Undefined
    /\ response' = Undefined
    /\ UNCHANGED timetable

\* the answer has been sent
RouteAnswered ==
    /\ \/ pc = "done" /\ "results" \notin DOMAIN args
       \/ pc = "responded"
    /\ pc' = "idle"
    /\ UNCHANGED <<args, result, timetable, response>>

RoutePost ==
    /\ pc = "idle"
    /\ Len(timetable) < MaxStored
    /\ \E body \in RoutePostBodies : PostTimetable(body)
    /\ UNCHANGED <<args, result, pc>>

RoutePut ==
    /\ pc = "idle"
    /\ \E id \in 1 .. MaxStored, updates \in RoutePutBodies : PutTimetable(id, updates)
    /\ UNCHANGED <<args, result, pc>>

RouteDelete ==
    /\ pc = "idle"
    /\ \E id \in 1 .. MaxStored : DeleteTimetable(id)
    /\ UNCHANGED <<args, result, pc>>

RouteSave ==
    /\ pc = "idle"
    /\ \E schedule \in SubmittedSchedules :
          /\ Len(timetable) + Len(schedule) <= MaxStored
          /\ SaveGenerated(schedule)
    /\ UNCHANGED <<args, result, pc>>

\* the genetic runs served here are too short for the early termination
NextRoutes ==
    \/ RouteGenerate
    \/ RouteCompare
    \/ RouteAnswered
    \/ RoutePost
    \/ RoutePut
    \/ RouteDelete
    \/ RouteSave
    \/ NextGen
    \/ EvolveStart
    \/ EvolveFitness
    \/ EvolveBreed
    \/ EvolveReturn
    \/ CompareGraphRun
    \/ CompareGraphRecord
    \/ CompareGenetic

SpecRoutes == InitRoutes /\ [][NextRoutes]_vars

\* C24: the Timetable collection changes only in a step of POST /timetable,
\* PUT /timetable/:id, DELETE /timetable/:id or POST /timetable/generate/save,
\* never in a step of a generation or comparison request; and the save appends
\* the submitted schedule as it is, whatever the kernel would say about it.
C24_OnlyWritersChangeTimetable ==
    [][/\ timetable' # timetable => (RoutePost \/ RoutePut \/ RouteDelete \/ RouteSave)
       /\ RouteSave =>
             \E schedule \in SubmittedSchedules :
                 /\ Len(timetable') = Len(timetable) + Len(schedule)
                 /\ SubSeq(timetable', 1, Len(timetable)) = timetable
                 /\ \A i \in 1 .. Len(schedule) :
                       /\ timetable'[Len(timetable) + i]._id \notin
                              {timetable[j]._id : j \in 1 .. Len(timetable)}
                       /\ schedule[i] =
                              [f \in DOMAIN schedule[i] |-> timetable'[Len(timetable) + i][f]]]_vars

\* after a greedy generation was answered without a change of the collection,
\* a save request has stored the same placement twice
C24_Witness ==
    /\ pc = "idle"
    /\ args # Undefined
    /\ args.algorithm = "greedy"
    /\ "entriesSaved" \in DOMAIN response
    /\ Len(timetable) = 2
    /\ timetable[1].startTime = timetable[2].startTime
    /\ timetable[1].day = timetable[2].day
    /\ timetable[1].classroomId = timetable[2].classroomId

(***************************************************************************)
(* GET /generate as a first fit.  The triples (day, startTime, classroom)  *)
(* are ranked by the nesting of the three inner loops, lines 327-376.      *)
(***************************************************************************)
GreedyFeasible(course, studentGroup, classroom, day, startTime, generatedSchedule, persisted) ==
    /\ classroom.capacity >= studentGroup.size
    /\ checkConflicts(persisted, course._id, studentGroup._id, classroom._id,
                      course.teacherId._id, day, startTime,
                      InlineEndTime(startTime, course.duration), NoId, generatedSchedule,
                      [teacher |-> course.teacherId, classroom |-> classroom,
                       studentGroup |-> studentGroup]) = <<>>

\* the triple (d, s, c) is tried before the triple (d2, s2, c2)
TriedBefore(d, s, c, d2, s2, c2) ==
    \/ d < d2
    \/ d = d2 /\ s < s2
    \/ d = d2 /\ s = s2 /\ c < c2

\* one iteration of the session loop took `before` to `after`
FirstFitStep(session, classrooms, slotConfig, persisted, before, after) ==
    LET course == session.course
        studentGroup == session.studentGroup
        possibleSlots ==
            generateTimeSlots(slotConfig.start, slotConfig.end, slotConfig.step, course.duration)
        Fits(d, s, c) ==
            GreedyFeasible(course, studentGroup, classrooms[c], Days[d], possibleSlots[s],
                           before, persisted)
        Triples == (1 .. Len(Days)) \X (1 .. Len(possibleSlots)) \X (1 .. Len(classrooms))
    IN  \/ /\ after = before
           /\ \A t \in Triples : ~Fits(t[1], t[2], t[3])
        \/ /\ Len(after) = Len(before) + 1
           /\ SubSeq(after, 1, Len(before)) = before
           /\ \E t \in Triples :
                 /\ after[Len(after)] =
                        Entry(course._id, studentGroup._id, classrooms[t[3]]._id,
                              course.teacherId._id, Days[t[1]], possibleSlots[t[2]],
                              InlineEndTime(possibleSlots[t[2]], course.duration),
                              course.duration)
                 /\ Fits(t[1], t[2], t[3])
                 /\ \A u \in Triples :
                       TriedBefore(u[1], u[2], u[3], t[1], t[2], t[3])
                           => ~Fits(u[1], u[2], u[3])

\* the schedule GET /generate returns for the given inputs, session by session
RECURSIVE GreedyRun(_, _, _, _, _)
GreedyRun(sessions, classrooms, slotConfig, persisted, generatedSchedule) ==
    IF sessions = <<>> THEN generatedSchedule
    ELSE LET scheduleEntry ==
                 GreedyPlace(Head(sessions).course, Head(sessions).studentGroup, classrooms,
                             generatedSchedule, persisted, slotConfig)
         IN  GreedyRun(Tail(sessions), classrooms, slotConfig, persisted,
                       IF scheduleEntry = Undefined THEN generatedSchedule
                       ELSE Append(generatedSchedule, scheduleEntry))

\* C25: every iteration of the greedy generator either appends, to the
\* entries accepted so far and without touching them, the entry of the first
\* triple (day, start, classroom) in loop order whose classroom is large
\* enough and for which checkConflicts reports nothing, or leaves the session
\* out because no triple fits; the sessions are taken in input order and the
\* answer is the one schedule determined by the inputs.
C25_GreedyFirstFit ==
    [][/\ (pc = "greedy" /\ result' # result) =>
              /\ result.sessions # <<>>
              /\ result'.sessions = Tail(result.sessions)
              /\ FirstFitStep(Head(result.sessions), args.classrooms, args.slots, timetable,
                              result.generatedSchedule, result'.generatedSchedule)
       /\ (pc = "request" /\ pc' = "greedy") =>
              /\ result'.generatedSchedule = <<>>
              /\ result'.sessions = GreedySessions(args.courses)
       /\ (pc = "greedy" /\ pc' = "done") =>
              response'.schedule =
                  GreedyRun(GreedySessions(args.courses), args.classrooms, args.slots,
                            timetable, <<>>)]_vars

\* a greedy run that left a session out for want of a classroom and placed
\* another session later than the first slot of monday
C25_Witness ==
    /\ pc = "done"
    /\ args.algorithm = "greedy"
    /\ Len(response.schedule) < Len(GreedySessions(args.courses))
    /\ \E i \in 1 .. Len(response.schedule) :
          /\ response.schedule[i].day = "monday"
          /\ response.schedule[i].startTime # args.slots.start
    /\ \E i \in 1 .. Len(response.schedule) : response.schedule[i].day = "tuesday"


(***************************************************************************)
(* The conflict graph and the colourings, stated on the scheduler's state *)
(***************************************************************************)

\* a graph-colouring request whose TimetableGraph has been constructed
GraphBuilt == args.algorithm \in GraphAlgorithms /\ pc # "request"

\* the (course, group, frequency-index) triples of the courses
NodeTriples(courses) ==
    UNION {UNION {{<<courses[c]._id, courses[c].studentGroups[g]._id, f>> :
                      f \in 0 .. courses[c].frequency - 1} :
                  g \in 1 .. Len(courses[c].studentGroups)} :
           c \in 1 .. Len(courses)}

\* the two nodes are joined by an edge, in either direction
Adjacent(graph, i, j) == <<i, j>> \in graph.edges \/ <<j, i>> \in graph.edges

\* the colour passes the filter of getAvailableColors for the node: no
\* coloured neighbour holds it and some classroom is large enough and
\* available for the colour's hour
ColourFeasible(graph, nodeIndex, coloring, color) ==
    /\ \A n \in 1 .. Len(graph.nodes) :
          (Adjacent(graph, n, nodeIndex) /\ coloring[n] # None) => coloring[n] # color.id
    /\ \E r \in 1 .. Len(graph.classrooms) :
          /\ graph.classrooms[r].capacity >= graph.nodes[nodeIndex].requiredCapacity
          /\ isClassroomAvailable(graph.classrooms[r], color.day, color.startTime,
                                  color.endTime)

GraphShape ==
    GraphBuilt =>
        LET nodes == result.graph.nodes
        IN  /\ {<<nodes[i].courseId, nodes[i].studentGroupId, nodes[i].frequency>> :
                   i \in 1 .. Len(nodes)} = NodeTriples(args.courses)
            /\ Len(nodes) = Cardinality(NodeTriples(args.courses))
            /\ \A i, j \in 1 .. Len(nodes) :
                  Adjacent(result.graph, i, j) <=>
                      /\ i # j
                      /\ \/ nodes[i].teacherId = nodes[j].teacherId
                         \/ nodes[i].studentGroupId = nodes[j].studentGroupId
                         \/ nodes[i].courseId = nodes[j].courseId

ProperColouring ==
    GraphBuilt =>
        \A i, j \in 1 .. Len(result.graph.nodes) :
            (Adjacent(result.graph, i, j) /\ result.coloring[i] # None)
                => result.coloring[i] # result.coloring[j]

LowestFeasibleColour ==
    (pc \in {"welsh-powell", "dsatur"}) =>
        \A n \in 1 .. Len(result.graph.nodes) :
            result'.coloring[n] # result.coloring[n] =>
                /\ result.coloring[n] = None
                /\ \E k \in 1 .. Len(result.colors) :
                      /\ result'.coloring[n] = result.colors[k].id
                      /\ ColourFeasible(result.graph, n, result.coloring, result.colors[k])
                      /\ \A j \in 1 .. k - 1 :
                            ~ColourFeasible(result.graph, n, result.coloring, result.colors[j])

\* C26: the conflict graph has exactly one node per (course, group,
\* frequency-index) triple and joins two distinct nodes exactly when they share
\* a teacher, a student group or a course; under Welsh-Powell and under DSATUR
\* two adjacent coloured nodes never hold the same colour, and a node that is
\* coloured receives the lowest-indexed colour that no coloured neighbour
\* holds and for which a large-enough classroom is available.
C26_ConflictGraphProperlyColoured ==
    /\ [](GraphShape /\ ProperColouring)
    /\ [][LowestFeasibleColour]_vars

\* a colouring is complete in which two adjacent nodes are coloured and some
\* node had to take the third colour or a later one
C26_Witness ==
    /\ GraphBuilt
    /\ pc = "assign"
    /\ \E e \in result.graph.edges :
          result.coloring[e[1]] # None /\ result.coloring[e[2]] # None
    /\ \E n \in 1 .. Len(result.graph.nodes) :
          result.coloring[n] # None /\ result.coloring[n] >= 3
    /\ \E i, j \in 1 .. Len(result.graph.nodes) : i < j /\ ~Adjacent(result.graph, i, j)


(***************************************************************************)
(* DSATUR: the order in which the nodes are taken                          *)
(***************************************************************************)

\* the number of nodes joined to the node
DegreeOf(graph, nodeIndex) ==
    Cardinality({n \in 1 .. Len(graph.nodes) : Adjacent(graph, n, nodeIndex)})

\* the number of distinct colours among the node's coloured neighbours
DistinctNeighbourColours(graph, nodeIndex, coloring) ==
    Cardinality({coloring[n] :
                    n \in {x \in 1 .. Len(graph.nodes) :
                              Adjacent(graph, x, nodeIndex) /\ coloring[x] # None}})

SaturationRecorded ==
    (pc \in {"dsatur", "dsatur-next"}) =>
        \A n \in 1 .. Len(result.graph.nodes) :
            result.coloring[n] = None =>
                result.saturation[n] =
                    DistinctNeighbourColours(result.graph, n, result.coloring)

MaxDegreeFirst ==
    /\ (pc = "graph" /\ pc' = "dsatur") =>
           \A n \in 1 .. Len(result.graph.nodes) :
               DegreeOf(result.graph, n) <= DegreeOf(result.graph, result'.currentNode)
    /\ (pc = "dsatur" /\ result.colored = {} /\ result'.colored # {}) =>
           \A n \in 1 .. Len(result.graph.nodes) :
               \A first \in result'.colored :
                   DegreeOf(result.graph, n) <= DegreeOf(result.graph, first)

MaxSaturationNext ==
    (pc = "dsatur-next" /\ pc' = "dsatur") =>
        LET open == {n \in 1 .. Len(result.graph.nodes) : result.coloring[n] = None}
            chosen == result'.currentNode
        IN  IF open = {} THEN chosen = None
            ELSE /\ chosen \in open
                 /\ \A n \in open :
                       \/ result.saturation[n] < result.saturation[chosen]
                       \/ /\ result.saturation[n] = result.saturation[chosen]
                          /\ DegreeOf(result.graph, n) <= DegreeOf(result.graph, chosen)

\* C27: DSATUR starts from a node of maximum degree, which is the first node
\* it colours; whenever its loop is at rest the saturation it holds for every
\* uncoloured node is the number of distinct colours among that node's
\* coloured neighbours; and the node it takes next is an uncoloured node of
\* maximum saturation which, among those, has maximum degree.
C27_DsaturOrder ==
    /\ []SaturationRecorded
    /\ [][MaxDegreeFirst /\ MaxSaturationNext]_vars

\* DSATUR is about to colour a node with two coloured neighbours of one
\* colour, chosen among several uncoloured nodes
C27_Witness ==
    /\ pc = "dsatur"
    /\ args.algorithm = "dsatur"
    /\ result.currentNode # None
    /\ result.coloring[result.currentNode] = None
    /\ \E i, j \in 1 .. Len(result.graph.nodes) :
          /\ i < j
          /\ Adjacent(result.graph, i, result.currentNode)
          /\ Adjacent(result.graph, j, result.currentNode)
          /\ result.coloring[i] # None
          /\ result.coloring[i] = result.coloring[j]
    /\ \E n \in 1 .. Len(result.graph.nodes) :
          /\ n # result.currentNode
          /\ result.coloring[n] = None


(***************************************************************************)
(* assignClassrooms: the classroom pass of the graph-colouring schedulers  *)
(***************************************************************************)

\* some entry of the schedule holds the classroom at (day, startTime)
Taken(schedule, classroomId, day, startTime) ==
    \E i \in 1 .. Len(schedule) :
        /\ schedule[i].classroomId = classroomId
        /\ schedule[i].day = day
        /\ schedule[i].startTime = startTime

\* the classroom can take the node's assignment
ClassroomFree(graph, schedule, nodeIndex, assignment, classroom) ==
    /\ classroom.capacity >= graph.nodes[nodeIndex].requiredCapacity
    /\ isClassroomAvailable(classroom, assignment.day, assignment.startTime,
                            assignment.endTime)
    /\ ~Taken(schedule, classroom._id, assignment.day, assignment.startTime)

\* the nodes still to be processed are coloured and ascending, and every
\* coloured node not among them comes before them
AscendingNodeOrder ==
    (pc = "assign") =>
        /\ \A i \in 1 .. Len(result.entries) : result.coloring[result.entries[i]] # None
        /\ \A i, j \in 1 .. Len(result.entries) :
              i < j => result.entries[i] < result.entries[j]
        /\ \A n \in 1 .. Len(result.graph.nodes) :
              (result.coloring[n] # None /\ \A i \in 1 .. Len(result.entries) :
                                               result.entries[i] # n)
                  => \A i \in 1 .. Len(result.entries) : n < result.entries[i]

\* no two entries of the schedule share (classroom, day, startTime)
ClassroomKeysUnique ==
    (pc \in {"assign", "done"} /\ args.algorithm \in GraphAlgorithms) =>
        \A i, j \in 1 .. Len(result.schedule) :
            (/\ result.schedule[i].classroomId = result.schedule[j].classroomId
             /\ result.schedule[i].day = result.schedule[j].day
             /\ result.schedule[i].startTime = result.schedule[j].startTime) => i = j

FirstFreeClassroom ==
    (pc = "assign" /\ pc' = "assign") =>
        LET nodeIndex == Head(result.entries)
            assignment == result.timeSlotAssignments[nodeIndex]
            classrooms == result.graph.classrooms
            Free(r) ==
                ClassroomFree(result.graph, result.schedule, nodeIndex, assignment,
                              classrooms[r])
        IN  /\ result'.entries = Tail(result.entries)
            /\ IF \E r \in 1 .. Len(classrooms) : Free(r)
               THEN \E r \in 1 .. Len(classrooms) :
                       /\ Free(r)
                       /\ \A q \in 1 .. r - 1 : ~Free(q)
                       /\ result'.schedule =
                              Append(result.schedule,
                                     [assignment EXCEPT !.classroomId = classrooms[r]._id])
               ELSE result'.schedule = result.schedule

\* C28: assignClassrooms takes the coloured nodes in ascending node index and
\* gives each the first classroom, in input order, that is large enough, is
\* available for the assignment's day, start and end, and is not yet taken
\* at (classroom, day, startTime); a node without such a classroom is left out
\* of the schedule, and no two entries of the schedule share
\* (classroom, day, startTime).
C28_ClassroomAssignment ==
    /\ [](AscendingNodeOrder /\ ClassroomKeysUnique)
    /\ [][FirstFreeClassroom]_vars

\* a finished run that left a coloured node out and gave another node a
\* classroom further down the list although the first one was large enough
C28_Witness ==
    /\ pc = "done"
    /\ args.algorithm \in GraphAlgorithms
    /\ Len(result.schedule) <
           Cardinality({n \in 1 .. Len(result.graph.nodes) : result.coloring[n] # None})
    /\ \E i \in 1 .. Len(result.schedule) :
          /\ result.schedule[i].classroomId # result.graph.classrooms[1]._id
          /\ result.graph.classrooms[1].capacity >=
                 result.graph.nodes[result.schedule[i].nodeId].requiredCapacity


(***************************************************************************)
(* Specification SpecBreed: the generations of evolve with the chromosomes *)
(* and the genes as objects.  result.genes holds the gene objects and      *)
(* result.arrays the chromosome arrays, each a sequence of references to   *)
(* gene objects; a population is a sequence of references to arrays.       *)
(* [...chromosome] and slice/spread build a new array of the same          *)
(* references, { ...gene } builds a new gene object.                       *)
(***************************************************************************)

BreedCourseLists ==
    {<<GenCourse("c1", "t1", <<LargeGroup, SmallGroup>>, 1, 60)>>,
     <<GenCourse("c2", "t3", <<SmallGroup>>, 2, 90)>>}

BreedClassrooms == <<SmallRoom, LargeRoom>>

\* config.days and config.timeSlots of the runs examined
BreedConfig == [days |-> <<"monday", "tuesday">>, timeSlots |-> <<Time(9, 0)>>]

\* populationSize, maxGenerations and elitismRate (in percent) of the runs examined
BreedArgs ==
    {[courses |-> courses, populationSize |-> c[1], maxGenerations |-> c[2],
      elitismRate |-> 50] :
        courses \in BreedCourseLists, c \in {<<1, 2>>, <<2, 1>>}}

\* the chromosome an array stands for
Deref(heap, array) == [i \in 1 .. Len(heap.arrays[array]) |-> heap.genes[heap.arrays[array][i]]]

\* the population as the initialisation loop leaves it on the heap
RECURSIVE PushChromosomes(_, _)
PushChromosomes(heap, chromosomes) ==
    IF chromosomes = <<>> THEN heap
    ELSE PushChromosomes(
             [heap EXCEPT
                 !.genes = @ \o Head(chromosomes),
                 !.arrays = Append(@, [i \in 1 .. Len(Head(chromosomes)) |->
                                          Len(heap.genes) + i]),
                 !.population = Append(@, Len(heap.arrays) + 1)],
             Tail(chromosomes))

\* the genes one pass of the switch of mutate may build from a copy of `gene`
GeneMutations(gene, classrooms, studentGroups, config) ==
    {[gene EXCEPT !.startTime = config.timeSlots[t],
                  !.endTime = calculateEndTime(config.timeSlots[t], gene.duration)] :
        t \in 1 .. Len(config.timeSlots)}
    \cup {[gene EXCEPT !.day = config.days[d]] : d \in 1 .. Len(config.days)}
    \cup (IF FindIn(studentGroups, gene.studentGroupId) # Undefined
          THEN {[gene EXCEPT !.classroomId = classroom._id] :
                   classroom \in getRandomClassroom(classrooms,
                                     FindIn(studentGroups, gene.studentGroupId).size)}
          ELSE {})

\* what mutate may do to each position of the chromosome: leave it
\* (Undefined) or put a mutated copy of the gene there
MutationChoices(heap, array, classrooms, studentGroups, config) ==
    LET chromosome == Deref(heap, array)
        all == {Undefined}
                   \cup UNION {GeneMutations(chromosome[i], classrooms, studentGroups, config) :
                                  i \in 1 .. Len(chromosome)}
    IN  {changes \in [1 .. Len(chromosome) -> all] :
            \A i \in 1 .. Len(chromosome) :
                changes[i] = Undefined
                    \/ changes[i] \in GeneMutations(chromosome[i], classrooms, studentGroups,
                                                    config)}

\* a variant of mutate that writes into the gene it finds in the array
\* (const gene = mutatedChromosome[i]) instead of into a copy
mutateOnHeapInPlace(heap, array, changes) ==
    [heap EXCEPT
        !.genes = [g \in 1 .. Len(heap.genes) |->
                      IF \E i \in 1 .. Len(changes) :
                             heap.arrays[array][i] = g /\ changes[i] # Undefined
                      THEN changes[CHOOSE i \in 1 .. Len(changes) :
                                       /\ heap.arrays[array][i] = g
                                       /\ changes[i] # Undefined
                                       /\ \A j \in i + 1 .. Len(changes) :
                                             ~(heap.arrays[array][j] = g
                                                 /\ changes[j] # Undefined)]
                      ELSE heap.genes[g]],
        !.arrays = Append(@, heap.arrays[array])]

\* mutate(chromosome): the heap after the call; the array returned is the
\* last one of the heap
mutateOnHeap(heap, array, changes) ==
    LET fresh(i) ==
            Len(heap.genes) + Cardinality({j \in 1 .. i : changes[j] # Undefined})
    IN  [heap EXCEPT
            !.genes = @ \o SelectSeq(changes, LAMBDA c : c # Undefined),
            !.arrays = Append(@, [i \in 1 .. Len(changes) |->
                                     IF changes[i] = Undefined THEN heap.arrays[array][i]
                                     ELSE fresh(i)])]

\* crossover(parent1, parent2) at the given point, or without crossover
\* (point = None is Math.random() > crossoverRate): the heap afterwards and
\* the two children
crossoverOnHeap(heap, parent1, parent2, point) ==
    IF point = None THEN [heap |-> heap, child1 |-> parent1, child2 |-> parent2]
    ELSE LET p1 == heap.arrays[parent1]
             p2 == heap.arrays[parent2]
             cut == point - 1
         IN  [heap |-> [heap EXCEPT
                           !.arrays = @ \o <<SubSeq(p1, 1, cut) \o SubSeq(p2, cut + 1, Len(p2)),
                                             SubSeq(p2, 1, cut) \o SubSeq(p1, cut + 1, Len(p1))>>],
              child1 |-> Len(heap.arrays) + 1,
              child2 |-> Len(heap.arrays) + 2]

\* the crossover points: None, or 1 + Math.floor(Math.random() * Math.min(...))
CrossoverPoints(heap, parent1, parent2) ==
    {None} \cup {k \in 1 .. Len(heap.arrays[parent1]) : k <= Len(heap.arrays[parent2])}

\* the index tournamentSelection picks for the drawn indices
TournamentIndex(fitnessScores, drawn) ==
    drawn[CHOOSE k \in 1 .. Len(drawn) :
              /\ \A j \in 1 .. Len(drawn) :
                    fitnessScores[drawn[k]].fitness <= fitnessScores[drawn[j]].fitness
              /\ \A j \in 1 .. k - 1 :
                    fitnessScores[drawn[j]].fitness > fitnessScores[drawn[k]].fitness]

\* sortedIndices: the indices of the eliteCount lowest fitness scores
EliteIndices(fitnessScores, eliteCount) ==
    [p \in 1 .. eliteCount |->
        CHOOSE i \in 1 .. Len(fitnessScores) :
            Cardinality({j \in 1 .. Len(fitnessScores) :
                            \/ fitnessScores[j].fitness < fitnessScores[i].fitness
                            \/ /\ fitnessScores[j].fitness = fitnessScores[i].fitness
                               /\ j < i}) = p - 1]

InitBreed ==
    /\ args \in BreedArgs
    /\ result = Undefined
    /\ pc = "request"
    /\ timetable = <<>>
    /\ response = Undefined

\* lines 1012-1015: the random population
BreedStart ==
    /\ pc = "request"
    /\ "courses" \in DOMAIN args
    /\ \E chromosomes \in [1 .. args.populationSize ->
                              createRandomChromosome(args.courses, BreedClassrooms,
                                                     BreedConfig)] :
          result' = PushChromosomes([genes |-> <<>>, arrays |-> <<>>, population |-> <<>>,
                                     newPopulation |-> <<>>, fitnessScores |-> <<>>,
                                     generation |-> 0],
                                    chromosomes)
    /\ pc' = "fitness"
    /\ UNCHANGED <<args, timetable, response>>

\* lines 1024-1060: the fitness scores of the generation and the elite,
\* newPopulation.push([...population[index]])
BreedElite ==
    /\ pc = "fitness"
    /\ \E fitnessScores \in
              {[i \in 1 .. Len(result.population) |->
                   calculateFitness(timetable, Deref(result, result.population[i]),
                                    GaTeachers, BreedClassrooms, GaGroups, BreedConfig.days)]} :
       \E sortedIndices \in {EliteIndices(fitnessScores, EliteCount(args))} :
          result' =
              [result EXCEPT
                  !.fitnessScores = fitnessScores,
                  !.arrays = @ \o [p \in 1 .. Len(sortedIndices) |->
                                      result.arrays[result.population[sortedIndices[p]]]],
                  !.newPopulation = [p \in 1 .. Len(sortedIndices) |->
                                        Len(result.arrays) + p]]
    /\ pc' = "offspring"
    /\ UNCHANGED <<args, timetable, response>>

\* lines 1063-1072: one pass of `while (newPopulation.length < populationSize)`
BreedOffspring ==
    /\ pc = "offspring"
    /\ Len(result.newPopulation) < args.populationSize
    /\ \E drawn1, drawn2 \in [1 .. 3 -> 1 .. Len(result.population)] :
       \E parent1 \in {result.population[TournamentIndex(result.fitnessScores, drawn1)]} :
       \E parent2 \in {result.population[TournamentIndex(result.fitnessScores, drawn2)]} :
       \E point \in CrossoverPoints(result, parent1, parent2) :
       \E crossed \in {crossoverOnHeap(result, parent1, parent2, point)} :
       \E changes1 \in MutationChoices(crossed.heap, crossed.child1, BreedClassrooms,
                                       GaGroups, BreedConfig) :
       \E first \in {mutateOnHeap(crossed.heap, crossed.child1, changes1)} :
          IF Len(result.newPopulation) + 1 < args.populationSize
          THEN \E changes2 \in MutationChoices(first, crossed.child2, BreedClassrooms,
                                               GaGroups, BreedConfig) :
               \E second \in {mutateOnHeap(first, crossed.child2, changes2)} :
                  result' = [second EXCEPT
                                !.newPopulation =
                                    @ \o <<Len(first.arrays), Len(second.arrays)>>]
          ELSE result' = [first EXCEPT !.newPopulation = Append(@, Len(first.arrays))]
    /\ UNCHANGED <<args, pc, timetable, response>>

\* line 1074 and the loop test: population = newPopulation
BreedNext ==
    /\ pc = "offspring"
    /\ Len(result.newPopulation) >= args.populationSize
    /\ result' = [result EXCEPT !.population = result.newPopulation,
                                !.newPopulation = <<>>, !.generation = @ + 1]
    /\ pc' = IF result.generation + 1 < args.maxGenerations THEN "fitness" ELSE "done"
    /\ UNCHANGED <<args, timetable, response>>

NextBreed == BreedStart \/ BreedElite \/ BreedOffspring \/ BreedNext

SpecBreed == InitBreed /\ [][NextBreed]_vars

\* the number of (course, group, frequency-index) triples
RECURSIVE GeneCount(_)
GeneCount(courses) ==
    IF courses = <<>> THEN 0
    ELSE Len(Head(courses).studentGroups) * Head(courses).frequency + GeneCount(Tail(courses))

\* every array of the heap, the chromosomes of every population among them,
\* has one gene per triple, gene i with the identity of triple i
ChromosomeShape ==
    (pc # "request") =>
        \A a \in 1 .. Len(result.arrays) :
            /\ Len(result.arrays[a]) = GeneCount(args.courses)
            /\ \A i \in 1 .. Len(result.arrays[a]) :
                  LET gene == result.genes[result.arrays[a][i]]
                      triple == GreedySessions(args.courses)[i]
                  IN  /\ gene.courseId = triple.course._id
                      /\ gene.studentGroupId = triple.studentGroup._id
                      /\ gene.teacherId = triple.course.teacherId._id
                      /\ gene.duration = triple.course.duration

\* no step writes into an array or a gene that exists already
GivenUntouched ==
    (pc # "request") =>
        /\ \A a \in 1 .. Len(result.arrays) : result'.arrays[a] = result.arrays[a]
        /\ \A g \in 1 .. Len(result.genes) : result'.genes[g] = result.genes[g]

\* C29: every chromosome of every generation has exactly one gene per
\* (course, group, frequency-index) triple, the sum over the courses of
\* |groups| x frequency genes, and gene i carries the courseId,
\* studentGroupId, teacherId and duration of triple i, so that crossover and
\* mutation change day, startTime/endTime and classroomId only; and the
\* arrays and gene objects handed to mutation (and to every other step) are
\* left as they were.
C29_ChromosomeStructure ==
    /\ []ChromosomeShape
    /\ [][GivenUntouched]_vars

\* a chromosome of the last population shares a gene object with an earlier
\* array and holds, at another position, a mutated copy with another day
C29_Witness ==
    /\ pc = "done"
    /\ \E n \in 1 .. Len(result.population) :
       \E b \in 1 .. result.population[n] - 1 :
       \E i, j \in 1 .. Len(result.arrays[b]) :
          LET a == result.population[n]
          IN  /\ result.arrays[a][i] = result.arrays[b][i]
              /\ result.arrays[a][j] # result.arrays[b][j]
              /\ result.genes[result.arrays[a][j]].day # result.genes[result.arrays[b][j]].day


(***************************************************************************)
(* Specification SpecRace: two requests, POST /timetable twice or a POST   *)
(* and a PUT /timetable/:id, whose handlers are suspended at their awaits: *)
(* Timetable.findById (PUT), checkConflicts, and Timetable.create or       *)
(* Timetable.findByIdAndUpdate.  The steps of the two interleave freely.   *)
(***************************************************************************)

\* the entry the collection holds before the two requests arrive
RaceStored == Entry("c2", "g2", "r2", "t1", "tuesday", Time(9, 0), Time(10, 0), 60)

\* the POST bodies: one-hour placements on the hour, valid in every field
RacePostBodies ==
    {[courseId |-> a[1], studentGroupId |-> a[2], classroomId |-> a[3], teacherId |-> a[4],
      day |-> "monday", startTime |-> st, duration |-> 60] :
        a \in {<<"c1", "g1", "r1", "t1">>, <<"c3", "g3", "r3", "t1">>, <<"c4", "g4", "r4", "t4">>},
        st \in {Time(9, 0), Time(10, 0)}}

\* the whitelisted keys of the PUT bodies, for the stored entry: the entry is
\* moved to monday, keeping its hour or with a new start and duration
RacePutBodies ==
    {[day |-> "monday", startTime |-> t[1], duration |-> t[2], classroomId |-> r] :
        t \in {<<Undefined, Absent>>, <<Time(10, 0), 60>>}, r \in {NoString, "r1"}}

RaceRequests ==
    {[kind |-> "post", body |-> body] : body \in RacePostBodies}
        \cup {[kind |-> "put", id |-> 1, updates |-> updates] : updates \in RacePutBodies}

\* findByIdAndUpdate(id, updates): the document with the given keys replaced
ApplyUpdates(entry, updates) ==
    [entry EXCEPT
        !.day = IF updates.day # NoString THEN updates.day ELSE @,
        !.startTime = IF updates.startTime # Undefined THEN updates.startTime ELSE @,
        !.duration = IF updates.duration # Absent THEN updates.duration ELSE @,
        !.classroomId = IF updates.classroomId # NoString THEN updates.classroomId ELSE @,
        !.endTime = IF updates.startTime # Undefined /\ updates.duration # Absent
                    THEN InlineEndTime(updates.startTime, updates.duration) ELSE @]

\* the first request is a POST, the second a POST or a PUT
InitRace ==
    /\ args \in {<<first, second>> :
                    first \in {r \in RaceRequests : r.kind = "post"}, second \in RaceRequests}
    /\ result = [i \in 1 .. 2 |-> [existingEntry |-> Undefined, conflicts |-> <<>>]]
    /\ pc = [i \in 1 .. 2 |-> "start"]
    /\ timetable = <<Document(RaceStored, 1)>>
    /\ response = [i \in 1 .. 2 |-> Undefined]

\* PUT, line 441: const existingEntry = await Timetable.findById(req.params.id)
RaceFind(i) ==
    /\ pc[i] = "start"
    /\ args[i].kind = "put"
    /\ FindById(timetable, args[i].id) # 0
    /\ result' = [result EXCEPT
                     ![i].existingEntry = timetable[FindById(timetable, args[i].id)]]
    /\ pc' = [pc EXCEPT ![i] = "found"]
    /\ UNCHANGED <<args, timetable, response>>

\* POST, lines 209-220, and PUT, lines 446-463: await checkConflicts(...)
RaceLookup(i) ==
    /\ \/ pc[i] = "start" /\ args[i].kind = "post"
       \/ pc[i] = "found"
    /\ result' =
           [result EXCEPT
               ![i].conflicts =
                   IF args[i].kind = "post" THEN PostConflicts(timetable, args[i].body)
                   ELSE IF PutChecked(args[i].updates)
                   THEN PutConflicts(timetable, result[i].existingEntry, args[i].updates,
                                     args[i].id)
                   ELSE <<>>]
    /\ pc' = [pc EXCEPT ![i] = "checked"]
    /\ UNCHANGED <<args, timetable, response>>

\* POST, lines 221-231, and PUT, lines 465-477: the 409, or await
\* Timetable.create / Timetable.findByIdAndUpdate
RaceWrite(i) ==
    /\ pc[i] = "checked"
    /\ IF Len(result[i].conflicts) > 0
       THEN /\ response' = [response EXCEPT
                               ![i] = [status |-> 409, conflicts |-> result[i].conflicts]]
            /\ UNCHANGED timetable
       ELSE IF args[i].kind = "post"
       THEN /\ timetable' =
                   Append(timetable,
                          Document(Entry(args[i].body.courseId, args[i].body.studentGroupId,
                                         args[i].body.classroomId, args[i].body.teacherId,
                                         args[i].body.day, args[i].body.startTime,
                                         InlineEndTime(args[i].body.startTime,
                                                       args[i].body.duration),
                                         args[i].body.duration),
                                   NextId(timetable)))
            /\ response' = [response EXCEPT ![i] = [status |-> 201, conflicts |-> <<>>]]
       ELSE /\ timetable' =
                   [timetable EXCEPT
                       ![FindById(timetable, args[i].id)] = ApplyUpdates(@, args[i].updates)]
            /\ response' = [response EXCEPT ![i] = [status |-> 200, conflicts |-> <<>>]]
    /\ pc' = [pc EXCEPT ![i] = "done"]
    /\ UNCHANGED <<args, result>>

NextRace == \E i \in 1 .. 2 : RaceFind(i) \/ RaceLookup(i) \/ RaceWrite(i)

SpecRace == InitRace /\ [][NextRace]_vars

\* C30: when two POST /timetable requests, or a POST and a PUT, are handled
\* concurrently and interleave at their await points, the persisted entries
\* never contain two same-day entries whose teaching intervals overlap and
\* that share a teacher, student group, classroom or course.
C30_ConcurrentWritesConflictFree == ConflictFree(timetable)

\* both requests were answered with success and the collection holds two
\* overlapping monday entries of one teacher
C30_Witness ==
    /\ pc[1] = "done"
    /\ pc[2] = "done"
    /\ response[1].status = 201
    /\ response[2].status \in {200, 201}
    /\ \E i, j \in 1 .. Len(timetable) :
          /\ i < j
          /\ timetable[i].day = "monday"
          /\ timetable[j].day = "monday"
          /\ timetable[i].startTime = timetable[j].startTime
          /\ timetable[i].teacherId = timetable[j].teacherId


=============================================================================
